---- MODULE Spec2Model ----
(***************************************************************************)
(* A model of react-use-form: the useForm hook (src/src/useForm.tsx, the   *)
(* revision with setValue / validate / reset bindings), its leaf           *)
(* constructors (src/src/fields.tsx), its built-in rules                   *)
(* (src/src/rules.tsx), its tree walker, its standalone validator and its  *)
(* debounced change notification (useDebounce), all three in               *)
(* src/unnamed/part_002.                                                   *)
(*                                                                         *)
(* JavaScript values are records tagged by t.  A plain object is           *)
(*   [t |-> "object", keys |-> <<k1, ..>>, at |-> [k1 |-> v1, ..]]         *)
(* (keys holds the insertion order that for..in follows).  An object       *)
(* tagged __type: 'Leaf' is a record [t |-> "Leaf", ..] whose other fields *)
(* are the object's properties; a property the code never wrote is Absent  *)
(* and reads as Undefined, as an absent property does in JavaScript.       *)
(***************************************************************************)
EXTENDS Integers, Sequences, FiniteSets, TLC

Undefined == [t |-> "undefined"]
Null == [t |-> "null"]
Str(s) == [t |-> "string", s |-> s]
Bool(b) == [t |-> "boolean", b |-> b]
\* an array is opaque to the form (arrays are leaves): only its length is read
Arr(n) == [t |-> "array", length |-> n]
Num(n) == [t |-> "number", n |-> n]
Obj(keys, at) == [t |-> "object", keys |-> keys, at |-> at]
EmptyObject == Obj(<<>>, <<>>)
\* the outcome of an evaluation that raises a TypeError
Throw == [t |-> "throw"]
\* the content of a property an object does not have
Absent == [t |-> "absent"]

\* lodash isObject: plain objects and tagged leaves (arrays are never descended)
isObject(v) == v.t \in {"object", "Leaf"}

\* object[key]
prop(object, key) ==
  IF object.t = "object"
    THEN IF key \in DOMAIN object.at THEN object.at[key] ELSE Undefined
  ELSE IF object.t = "Leaf"
    THEN IF key \in DOMAIN object /\ object[key] # Absent THEN object[key]
         ELSE Undefined
  ELSE Undefined

\* object[key] = value on an object or a tagged leaf
withProp(object, key, value) ==
  IF object.t = "Leaf"
    THEN IF key \in DOMAIN object THEN [object EXCEPT ![key] = value]
         ELSE (key :> value) @@ object
    ELSE [object EXCEPT
            !.keys = IF key \in DOMAIN object.at THEN @ ELSE Append(@, key),
            !.at = (key :> value) @@ @]

\* JavaScript truthiness of the values the model uses
truthy(v) ==
  CASE v.t \in {"undefined", "null"} -> FALSE
    [] v.t = "string" -> v.s # ""
    [] v.t = "boolean" -> v.b
    [] v.t = "number" -> v.n # 0
    [] OTHER -> TRUE

\* faulty variant of ??: a || b, which also discards the falsy 0, false and ''
orElse(a, b) == IF truthy(a) THEN a ELSE b

\* a ?? b
nullish(a, b) == IF a.t \in {"undefined", "null"} THEN b ELSE a

RECURSIVE get(_, _)
get(object, path) ==
  IF path = <<>> THEN object
  ELSE IF object.t \in {"undefined", "null"} THEN Undefined
  ELSE get(prop(object, Head(path)), Tail(path))

RECURSIVE set(_, _, _)
set(object, path, value) ==
  IF ~isObject(object) \/ path = <<>> THEN object
  ELSE LET key == Head(path)
           objValue == prop(object, key)
       IN IF Len(path) = 1
            THEN withProp(object, key, value)
            ELSE withProp(object, key,
                   set(IF isObject(objValue) THEN objValue ELSE EmptyObject,
                       Tail(path), value))

(***************************************************************************)
(* The tree walker: the <<path, leaf>> pairs f is called with, in order.   *)
(***************************************************************************)
\* the integer-like property names of the model, in ascending numeric order
IndexKeys == <<"0", "1", "2">>

\* for (const key in object): the integer-like names first, in ascending
\* numeric order, then the other names in the order they were inserted
forIn(object) ==
  IF \A i \in 1..Len(IndexKeys) : IndexKeys[i] \notin DOMAIN object.at
    THEN object.keys
    ELSE SelectSeq(IndexKeys, LAMBDA k : k \in DOMAIN object.at)
         \o SelectSeq(object.keys, LAMBDA k : \A i \in 1..Len(IndexKeys) : IndexKeys[i] # k)

\* the walk raises an exception: a null entry has no __type to read, and the
\* walk of a non-empty string never leaves its first character
RECURSIVE raises(_)
raises(object) ==
  IF object.t = "string" THEN object.s # ""
  ELSE IF object.t # "object" THEN FALSE
  ELSE \E key \in DOMAIN object.at :
         LET field_ == object.at[key]
         IN field_ = Null \/ (field_.t # "Leaf" /\ raises(field_))

\* faulty variant: f is handed the leaf's own name, not its path from the root
RECURSIVE forEachOwnName(_, _)
forEachOwnName(object, path) ==
  IF object.t # "object" THEN <<>>
  ELSE LET keys == forIn(object)
           RECURSIVE walk(_)
           walk(i) ==
             IF i > Len(keys) THEN <<>>
             ELSE LET key == keys[i]
                      field_ == object.at[key]
                  IN (IF field_.t = "Leaf"
                        THEN << << <<key>>, field_>> >>
                        ELSE forEachOwnName(field_, <<key>>)) \o walk(i + 1)
       IN walk(1)

\* the calls of f when the walk raises no exception (undefined, numbers,
\* booleans and '' have no enumerable property)
RECURSIVE forEach(_, _)
forEach(object, path) ==
  IF object.t # "object" THEN <<>>
  ELSE LET keys == forIn(object)
           RECURSIVE walk(_)
           walk(i) ==
             IF i > Len(keys) THEN <<>>
             ELSE LET key == keys[i]
                      field_ == object.at[key]
                      currentPath == Append(path, key)
                  IN (IF field_.t = "Leaf"
                        THEN << <<currentPath, field_>> >>
                        ELSE forEach(field_, currentPath)) \o walk(i + 1)
       IN walk(1)

(***************************************************************************)
(* Validation rules, named by the function's name.  A rule returns an      *)
(* error message (a string) or Undefined.                                  *)
(***************************************************************************)
requiredMessage == Str("This field is required")
nonEmptyMessage == Str("This field can't be empty.")
pictureMessage == Str("To upload a photo, you need to add a description")

required(value, formValue) ==
  IF value = Undefined \/ value = Null \/ value = Str("")
    THEN requiredMessage ELSE Undefined

\* input.length
\* input.length === 0 (a value without a length property has length undefined)
lengthIsZero(input) ==
  CASE input.t = "array" -> input.length = 0
    [] input.t = "string" -> input.s = ""
    [] OTHER -> FALSE

\* faulty variant: only a missing list is rejected, an empty one passes
nonEmptyIfDefined(input, formValue) ==
  IF input = Undefined THEN nonEmptyMessage
  ELSE IF input = Null THEN Throw
  ELSE Undefined

\* null.length raises a TypeError
nonEmpty(input, formValue) ==
  IF input = Undefined THEN nonEmptyMessage
  ELSE IF input = Null THEN Throw
  ELSE IF lengthIsZero(input) THEN nonEmptyMessage
  ELSE Undefined

\* the cross-field rule of the test suite: reads state.details.description
pictureRequiresDescription(value, formValue) ==
  IF ~truthy(value) THEN Undefined
  ELSE IF prop(formValue, "details").t \in {"undefined", "null"} THEN Throw
  ELSE IF ~truthy(prop(prop(formValue, "details"), "description"))
    THEN pictureMessage
  ELSE Undefined

\* a caller's rule that flags the empty string with the empty message:
\* ValidationRule = (value, state) => string | undefined, and '' is a string
emptyMessage(value, formValue) ==
  IF value = Str("") THEN Str("") ELSE Undefined

\* value <= 0 after JavaScript's conversion to a number: '' and false
\* convert to 0, true to 1; any other string, and an array with elements (the
\* model's arrays hold objects), convert to NaN, which compares false
lessOrEqualZero(value) ==
  CASE value.t = "number" -> value.n <= 0
    [] value.t = "string" -> value.s = ""
    [] value.t = "boolean" -> ~value.b
    [] value.t = "array" -> value.length = 0
    [] OTHER -> FALSE

positiveNumberMessage == Str("This field must be greater than zero.")

positiveNumber(value, formValue) ==
  IF value = Undefined \/ value = Null \/ lessOrEqualZero(value)
    THEN positiveNumberMessage ELSE Undefined

\* value < 0 after JavaScript's conversion to a number: '', false and []
\* convert to 0, which is not below 0
lessThanZero(value) ==
  CASE value.t = "number" -> value.n < 0
    [] OTHER -> FALSE

nonNegativeNumberMessage == Str("This field must be greater than or equal to zero.")

nonNegativeNumber(value, formValue) ==
  IF value = Undefined \/ value = Null \/ lessThanZero(value)
    THEN nonNegativeNumberMessage ELSE Undefined

\* r(value, state)
ApplyRule(r, value, formValue) ==
  CASE r = "required" -> required(value, formValue)
    [] r = "nonEmpty" -> nonEmpty(value, formValue)
    [] r = "positiveNumber" -> positiveNumber(value, formValue)
    [] r = "nonNegativeNumber" -> nonNegativeNumber(value, formValue)
    [] r = "pictureRequiresDescription" -> pictureRequiresDescription(value, formValue)
    [] r = "emptyMessage" -> emptyMessage(value, formValue)

\* the first element of a list that is not Undefined, or Undefined
RECURSIVE find(_)
find(results) ==
  IF results = <<>> THEN Undefined
  ELSE IF Head(results) # Undefined THEN Head(results)
  ELSE find(Tail(results))

\* rules.map(r => r(value, state)): every rule is called, then the list is searched
mapRules(rules, value, formValue) ==
  [i \in 1..Len(rules) |-> ApplyRule(rules[i], value, formValue)]

\* faulty variant: the message of the last failing rule
maybeGetLastValidationError(value, formValue, rules) ==
  LET results == mapRules(rules, value, formValue)
      failing == {i \in 1..Len(results) : results[i] # Undefined}
  IN IF failing = {} THEN Undefined
     ELSE results[CHOOSE i \in failing : \A j \in failing : j <= i]

maybeGetFirstValidationError(value, formValue, rules) ==
  LET results == mapRules(rules, value, formValue)
  IN IF \E i \in 1..Len(results) : results[i] = Throw THEN Throw
     ELSE find(results)

(***************************************************************************)
(* Leaf constructors.  props is a record holding the keys the caller gave  *)
(* (<<>> for none).                                                        *)
(***************************************************************************)
NoProps == <<>>

field(props) ==
  [t |-> "Leaf",
   default |-> IF "default" \in DOMAIN props THEN props["default"] ELSE Undefined,
   rules |-> IF "rules" \in DOMAIN props THEN props["rules"] ELSE <<"required">>]

stringField(props) == field(props @@ [default |-> Str("")])

booleanField(props) == field(props @@ [default |-> Bool(FALSE)])

numberField(props) == field(props @@ [default |-> Num(0)])

arrayField(props) == field(props @@ [default |-> Arr(0)])

\* faulty variant: { ...props, rules: [required, nonEmpty] }, the caller's
\* rule list is discarded
nonEmptyArrayFieldOwnRules(props) ==
  field([rules |-> <<"required", "nonEmpty">>] @@ props @@ [default |-> Arr(0)])

nonEmptyArrayField(props) ==
  field(props @@ [default |-> Arr(0), rules |-> <<"required", "nonEmpty">>])

\* the constructor of the given name applied to props
construct(name, props) ==
  CASE name = "field" -> field(props)
    [] name = "stringField" -> stringField(props)
    [] name = "booleanField" -> booleanField(props)
    [] name = "numberField" -> numberField(props)
    [] name = "arrayField" -> arrayField(props)
    [] name = "nonEmptyArrayField" -> nonEmptyArrayField(props)

(***************************************************************************)
(* The standalone validator, validate(data, fieldDefs) of the utilities    *)
(* (the hook's bindings have a validate of their own, below).  It yields   *)
(* a boolean, or Throw when a rule raises an exception.                    *)
(***************************************************************************)
\* faulty variant: a value the data lacks is replaced by the leaf's default
RECURSIVE validateLoopWithDefaults(_, _, _)
validateLoopWithDefaults(leaves, data, isValid) ==
  IF leaves = <<>> THEN Bool(isValid)
  ELSE LET path == Head(leaves)[1]
           rules == Head(leaves)[2].rules
           value == nullish(get(data, path), Head(leaves)[2]["default"])
           results == mapRules(rules, value, data)
           error == find(results)
       IN IF \E i \in 1..Len(results) : results[i] = Throw THEN Throw
          ELSE validateLoopWithDefaults(Tail(leaves), data,
                                        isValid /\ error = Undefined)

\* the forEach loop of validate over the leaves of the schema
RECURSIVE validateLoop(_, _, _)
validateLoop(leaves, data, isValid) ==
  IF leaves = <<>> THEN Bool(isValid)
  ELSE LET path == Head(leaves)[1]
           rules == Head(leaves)[2].rules
           value == get(data, path)
           results == mapRules(rules, value, data)
           error == find(results)
       IN IF \E i \in 1..Len(results) : results[i] = Throw THEN Throw
          ELSE validateLoop(Tail(leaves), data, isValid /\ error = Undefined)

validateData(data, defs) == validateLoop(forEach(defs, <<>>), data, TRUE)

(***************************************************************************)
(* The state tree.                                                         *)
(***************************************************************************)
\* the object literal { rules, value, __type } written at a leaf path
LeafState(rules, value) ==
  [t |-> "Leaf", rules |-> rules, value |-> value,
   touched |-> Absent, error |-> Absent]

\* faulty variant: once a seed object is given, the leaf's default is not
\* consulted
RECURSIVE getInitialStateFromSeedOnly(_, _, _)
getInitialStateFromSeedOnly(draft, leaves, seed) ==
  IF leaves = <<>> THEN draft
  ELSE LET path == Head(leaves)[1]
           def == Head(leaves)[2]
           value == IF seed = Undefined THEN def["default"] ELSE get(seed, path)
       IN getInitialStateFromSeedOnly(set(draft, path, LeafState(def.rules, value)),
                                      Tail(leaves), seed)

RECURSIVE getInitialStateFrom(_, _, _)
getInitialStateFrom(draft, leaves, seed) ==
  IF leaves = <<>> THEN draft
  ELSE LET path == Head(leaves)[1]
           def == Head(leaves)[2]
           preferredDefaultFieldValue == get(seed, path)
           value == nullish(preferredDefaultFieldValue, def["default"])
       IN getInitialStateFrom(set(draft, path, LeafState(def.rules, value)),
                              Tail(leaves), seed)

getInitialState(defs, seed) ==
  getInitialStateFrom(defs, forEach(defs, <<>>), seed)

\* faulty variant: a leaf whose value is undefined is left as it is
RECURSIVE extractDefinedInto(_, _)
extractDefinedInto(tree, leaves) ==
  IF leaves = <<>> THEN tree
  ELSE extractDefinedInto(IF Head(leaves)[2].value = Undefined THEN tree
                          ELSE set(tree, Head(leaves)[1], Head(leaves)[2].value),
                          Tail(leaves))

RECURSIVE extractInto(_, _)
extractInto(tree, leaves) ==
  IF leaves = <<>> THEN tree
  ELSE extractInto(set(tree, Head(leaves)[1], Head(leaves)[2].value), Tail(leaves))

extractValuesFromFieldsState(s) ==
  extractInto(s, forEach(s, <<>>))

\* faulty variant: !obj, which also takes 0 and false for empty
isFalsyObject(obj) ==
  ~truthy(obj) \/ (obj.t = "array" /\ obj.length = 0)

isEmptyObject(obj) ==
  \/ obj = Undefined
  \/ obj = Null
  \/ obj = Str("")
  \/ (obj.t = "array" /\ obj.length = 0)

\* the predicates exists is handed: useForm's ({ value }) => !isEmptyObject(value),
\* and predicates on the touched flag, on nothing and on everything
ApplyPredicate(predicate, leaf) ==
  CASE predicate = "hasValue" -> ~isEmptyObject(prop(leaf, "value"))
    [] predicate = "touched" -> prop(leaf, "touched") = Bool(TRUE)
    [] predicate = "never" -> FALSE
    [] predicate = "always" -> TRUE

\* faulty variant: the walk goes on after a match and returns at its end
RECURSIVE existsWalksOn(_, _, _)
existsWalksOn(object, predicate, calls) ==
  IF object.t = "string" /\ object.s # "" THEN [calls |-> calls, returns |-> Throw]
  ELSE IF object.t # "object" THEN [calls |-> calls, returns |-> Bool(FALSE)]
  ELSE LET keys == forIn(object)
           RECURSIVE visit(_, _, _)
           visit(i, made, found) ==
             IF i > Len(keys) THEN [calls |-> made, returns |-> Bool(found)]
             ELSE LET field_ == object.at[keys[i]]
                  IN IF field_ = Null THEN [calls |-> made, returns |-> Throw]
                     ELSE IF field_.t = "Leaf"
                       THEN visit(i + 1, Append(made, field_),
                                  found \/ ApplyPredicate(predicate, field_))
                     ELSE LET inner == existsWalksOn(field_, predicate, made)
                          IN IF inner.returns = Throw THEN inner
                             ELSE visit(i + 1, inner.calls, found \/ inner.returns.b)
       IN visit(1, calls, FALSE)

\* exists(object, predicate), after the calls of predicate already made: the
\* leaves predicate was called with and what the walk returns, Throw when it
\* raises an exception
RECURSIVE existsFrom(_, _, _)
existsFrom(object, predicate, calls) ==
  IF object.t = "string" /\ object.s # "" THEN [calls |-> calls, returns |-> Throw]
  ELSE IF object.t # "object" THEN [calls |-> calls, returns |-> Bool(FALSE)]
  ELSE LET keys == forIn(object)
           RECURSIVE visit(_, _)
           visit(i, made) ==
             IF i > Len(keys) THEN [calls |-> made, returns |-> Bool(FALSE)]
             ELSE LET field_ == object.at[keys[i]]
                  IN IF field_ = Null THEN [calls |-> made, returns |-> Throw]
                     ELSE IF field_.t = "Leaf"
                       THEN IF ApplyPredicate(predicate, field_)
                              THEN [calls |-> Append(made, field_), returns |-> Bool(TRUE)]
                              ELSE visit(i + 1, Append(made, field_))
                     ELSE LET inner == existsFrom(field_, predicate, made)
                          IN IF inner.returns = Bool(FALSE)
                               THEN visit(i + 1, inner.calls)
                               ELSE inner
       IN visit(1, calls)

\* exists(object, ({ value }) => !isEmptyObject(value)): the walk returns as
\* soon as a leaf matches
exists(object) == existsFrom(object, "hasValue", <<>>).returns = Bool(TRUE)

\* useForm's isEmpty
isEmpty(s) == ~exists(s)

\* faulty variant: hasTouched = touched === true, the flag of the last leaf
isTouchedOfLast(s) ==
  LET leaves == forEach(s, <<>>)
  IN leaves # <<>> /\ prop(leaves[Len(leaves)][2], "touched") = Bool(TRUE)

\* useForm's isTouched
isTouched(s) ==
  LET leaves == forEach(s, <<>>)
      RECURSIVE visit(_, _)
      visit(i, hasTouched) ==
        IF i > Len(leaves) THEN hasTouched
        ELSE visit(i + 1, hasTouched \/ prop(leaves[i][2], "touched") = Bool(TRUE))
  IN visit(1, FALSE)

(***************************************************************************)
(* The hook's state.  React holds state and the queue of updater functions *)
(* passed to setState since the last render; a render applies the queued   *)
(* updaters in order, commits the result and re-creates the bindings from  *)
(* it.  A promise's continuation runs as a microtask after the render that *)
(* called its resolve.                                                     *)
(***************************************************************************)
VARIABLES
  fieldDefs,     \* the schema passed to useForm
  defaultValue,  \* the seed object passed to useForm, or Undefined
  initialState,  \* useMemo(() => getInitialState(fieldDefs, defaultValue))
  state,         \* useState(initialState): the committed state
  queue,         \* updaters passed to setState and not yet applied
  microtasks,    \* promises resolved by the last render, not yet delivered
  delivered,     \* results the awaiting callers have received since that render
  prev,          \* history: the state the last render started from, which
                 \* is the state the bindings in use were created from
  flushed,       \* history: the updaters the last render applied
  applied,       \* history: what each of them was called with and yielded
  option,        \* the option object passed to useForm
  lifecycle,     \* "mounted", "unmounted", or "threw" once a render has thrown
  timer,         \* lodash.debounce's pending timeout: the time left, or Undefined
  triggerCallback, \* useDebounce's useState(false)
  notified,      \* the values onStateChange has been called with, in order
  sinceCall,     \* history: the time since the debounced function was last called
  superseded,    \* history: the timer that call replaced, or Undefined
  called,        \* the last call of a function of the library made outside the
                 \* hook: its name and arguments, or NoCall
  returned       \* what that call returned

vars == <<fieldDefs, defaultValue, initialState, state, queue, microtasks,
          delivered, prev, flushed, applied, option, lifecycle, timer, triggerCallback,
          notified, sinceCall, superseded, called, returned>>

\* the variables of the hook's form state
form == <<fieldDefs, defaultValue, initialState, state, queue, microtasks,
          delivered, prev, flushed, applied>>

\* the variables of the change notification
bridge == <<timer, triggerCallback, notified, sinceCall, superseded>>

\* the variables of a call made outside the hook
library == <<called, returned>>

NoCall == [f |-> "none"]

\* the number of binding calls made before the host re-renders
MaxBatch == 2

\* the debounce delay, in ticks of the clock
Delay == 2

\* the number of times onStateChange is called before the clock stops
MaxNotified == 2

True == Bool(TRUE)
False == Bool(FALSE)

(***************************************************************************)
(* The updater functions.  Each yields the next state, the values passed   *)
(* to resolve, and the (value, form value) pairs handed to the rules.  c   *)
(* holds what the closure captured when the bindings were created and the  *)
(* arguments of the call.  An updater in which a rule raises an exception  *)
(* yields threw: the exception leaves the updater and the render.          *)
(***************************************************************************)
Done(s, resolve, handed) ==
  [state |-> s, resolve |-> resolve, handed |-> handed, threw |-> FALSE]

Thrown(s, handed) ==
  [state |-> s, resolve |-> <<>>, handed |-> handed, threw |-> TRUE]

\* faulty variant: the leaf is marked touched only when the value changes
setValueRecipeIfChanged(updatedState, c, fieldValues) ==
  LET changed == get(updatedState, c.path \o <<"value">>) # c.updatedValue
      s1 == set(updatedState, c.path \o <<"value">>, c.updatedValue)
      s2 == IF changed THEN set(s1, c.path \o <<"touched">>, True) ELSE s1
  IN IF c.runValidation
       THEN LET error == maybeGetFirstValidationError(c.updatedValue, fieldValues,
                                                      c.rules)
                handed == << [path |-> c.path, value |-> c.updatedValue,
                               formValue |-> fieldValues] >>
            IN IF error = Throw THEN Thrown(updatedState, handed)
               ELSE Done(set(s2, c.path \o <<"error">>, error),
                         <<error = Undefined>>, handed)
       ELSE Done(s2, <<>>, <<>>)

\* faulty variant: resolve reads the error the binding captured at render
\* time (the destructured error the inner const shadows)
setValueRecipeCapturedError(updatedState, c, fieldValues) ==
  LET s1 == set(updatedState, c.path \o <<"value">>, c.updatedValue)
      s2 == set(s1, c.path \o <<"touched">>, True)
  IN IF c.runValidation
       THEN LET error == maybeGetFirstValidationError(c.updatedValue, fieldValues,
                                                      c.rules)
                handed == << [path |-> c.path, value |-> c.updatedValue,
                               formValue |-> fieldValues] >>
            IN IF error = Throw THEN Thrown(updatedState, handed)
               ELSE Done(set(s2, c.path \o <<"error">>, error),
                         <<c.error = Undefined>>, handed)
       ELSE Done(s2, <<>>, <<>>)

\* faulty variant: a setValue that does not validate clears the error
setValueRecipeClearsError(updatedState, c, fieldValues) ==
  LET s1 == set(updatedState, c.path \o <<"value">>, c.updatedValue)
      s2 == set(s1, c.path \o <<"touched">>, True)
  IN IF c.runValidation
       THEN LET error == maybeGetFirstValidationError(c.updatedValue, fieldValues,
                                                      c.rules)
                handed == << [path |-> c.path, value |-> c.updatedValue,
                               formValue |-> fieldValues] >>
            IN IF error = Throw THEN Thrown(updatedState, handed)
               ELSE Done(set(s2, c.path \o <<"error">>, error),
                         <<error = Undefined>>, handed)
       ELSE Done(set(s2, c.path \o <<"error">>, Undefined), <<>>, <<>>)

\* the recipe passed to produce by setValue
setValueRecipe(updatedState, c, fieldValues) ==
  LET s1 == set(updatedState, c.path \o <<"value">>, c.updatedValue)
      s2 == set(s1, c.path \o <<"touched">>, True)
  IN IF c.runValidation
       THEN LET error == maybeGetFirstValidationError(c.updatedValue, fieldValues,
                                                      c.rules)
                handed == << [path |-> c.path, value |-> c.updatedValue,
                               formValue |-> fieldValues] >>
            IN IF error = Throw THEN Thrown(updatedState, handed)
               ELSE Done(set(s2, c.path \o <<"error">>, error),
                         <<error = Undefined>>, handed)
       ELSE Done(s2, <<>>, <<>>)

\* faulty variant: setState(produce(state, ..)) on the state the bindings were
\* created from, instead of a functional update
setValueOnRendered(c, currentState) ==
  setValueRecipe(prev, c, extractValuesFromFieldsState(prev))

\* faulty variant: the rules are handed the form value of the state the
\* bindings were created from
setValueSeesRendered(c, currentState) ==
  setValueRecipe(currentState, c, extractValuesFromFieldsState(prev))

setValueUpdater(c, currentState) ==
  setValueRecipe(currentState, c, extractValuesFromFieldsState(currentState))

\* faulty variant: the value restored is the one the binding was created
\* with (the destructured value the inner const shadows)
resetToRendered(c, currentState) ==
  LET value == get(prev, c.path \o <<"value">>)
      s1 == set(currentState, c.path \o <<"value">>, nullish(c.resetWithValue, value))
      s2 == set(s1, c.path \o <<"error">>, Undefined)
  IN Done(set(s2, c.path \o <<"touched">>, False), <<>>, <<>>)

\* faulty variant: the value is written at the leaf's path itself, in place
\* of the leaf state
resetLeafItself(c, currentState) ==
  LET value == get(c.initialState, c.path \o <<"value">>)
  IN Done(set(currentState, c.path, nullish(c.resetWithValue, value)), <<>>, <<>>)

resetUpdater(c, currentState) ==
  LET value == get(c.initialState, c.path \o <<"value">>)
      s1 == set(currentState, c.path \o <<"value">>, nullish(c.resetWithValue, value))
      s2 == set(s1, c.path \o <<"error">>, Undefined)
  IN Done(set(s2, c.path \o <<"touched">>, False), <<>>, <<>>)

\* faulty variant: the error is written at the path of the first leaf of the
\* tree, not at the binding's own
validateWritesFirstLeaf(c, currentState) ==
  LET fieldValues == extractValuesFromFieldsState(currentState)
      error == maybeGetFirstValidationError(c.value, fieldValues, c.rules)
      handed == << [path |-> c.path, value |-> c.value, formValue |-> fieldValues] >>
      first == forEach(currentState, <<>>)[1][1]
  IN IF error = Throw THEN Thrown(currentState, handed)
     ELSE Done(set(currentState, first \o <<"error">>, error), <<>>, handed)

\* faulty variant: validating a leaf marks it touched
validateTouches(c, currentState) ==
  LET fieldValues == extractValuesFromFieldsState(currentState)
      error == maybeGetFirstValidationError(c.value, fieldValues, c.rules)
      handed == << [path |-> c.path, value |-> c.value, formValue |-> fieldValues] >>
  IN IF error = Throw THEN Thrown(currentState, handed)
     ELSE Done(set(set(currentState, c.path \o <<"error">>, error),
                   c.path \o <<"touched">>, True), <<>>, handed)

validateUpdater(c, currentState) ==
  LET fieldValues == extractValuesFromFieldsState(currentState)
      error == maybeGetFirstValidationError(c.value, fieldValues, c.rules)
      handed == << [path |-> c.path, value |-> c.value, formValue |-> fieldValues] >>
  IN IF error = Throw THEN Thrown(currentState, handed)
     ELSE Done(set(currentState, c.path \o <<"error">>, error), <<>>, handed)

\* the forEach loop of runValidation over the leaves of the state it was given
RECURSIVE runValidationLoop(_, _, _, _, _)
runValidationLoop(updatedState, leaves, fieldValues, isValid, handed) ==
  IF leaves = <<>> THEN Done(updatedState, <<isValid>>, handed)
  ELSE LET path == Head(leaves)[1]
           leaf == Head(leaves)[2]
           results == mapRules(leaf.rules, leaf.value, fieldValues)
           error == find(results)
           handed1 == Append(handed, [path |-> path, value |-> leaf.value,
                                      formValue |-> fieldValues])
       IN IF \E i \in 1..Len(results) : results[i] = Throw
            THEN Thrown(updatedState, handed1)
            ELSE runValidationLoop(set(updatedState, path \o <<"error">>, error),
                                   Tail(leaves), fieldValues,
                                   IF truthy(error) THEN FALSE ELSE isValid,
                                   handed1)

\* faulty variant: the rules are handed the form value of the rendered state
runValidationSeesRendered(c, currentState) ==
  runValidationLoop(currentState, forEach(currentState, <<>>),
                    extractValuesFromFieldsState(prev), TRUE, <<>>)

\* faulty variant: runValidation(state, setState) of the earlier revision,
\* validating the state captured at render time
runValidationOnRendered(c, currentState) ==
  runValidationLoop(prev, forEach(prev, <<>>),
                    extractValuesFromFieldsState(prev), TRUE, <<>>)

runValidationUpdater(c, currentState) ==
  runValidationLoop(currentState, forEach(currentState, <<>>),
                    extractValuesFromFieldsState(currentState), TRUE, <<>>)

\* faulty variant: only the values are written, on the ground that the
\* initial state holds neither error nor touched flag
RECURSIVE resetFormValuesOnly(_, _, _)
resetFormValuesOnly(updatedState, leaves, resetWithValue) ==
  IF leaves = <<>> THEN updatedState
  ELSE LET path == Head(leaves)[1]
           value == Head(leaves)[2].value
       IN resetFormValuesOnly(set(updatedState, path \o <<"value">>,
                                  nullish(get(resetWithValue, path), value)),
                              Tail(leaves), resetWithValue)

RECURSIVE resetFormLoop(_, _, _)
resetFormLoop(updatedState, leaves, resetWithValue) ==
  IF leaves = <<>> THEN updatedState
  ELSE LET path == Head(leaves)[1]
           value == Head(leaves)[2].value
           s1 == set(updatedState, path \o <<"value">>,
                     nullish(get(resetWithValue, path), value))
           s2 == set(s1, path \o <<"error">>, Undefined)
       IN resetFormLoop(set(s2, path \o <<"touched">>, False), Tail(leaves),
                        resetWithValue)

\* faulty variant: the walk and the fallback values are those of the current
\* state, not of the initial state
resetFormOnCurrent(c, currentState) ==
  Done(resetFormLoop(currentState, forEach(currentState, <<>>),
                     c.resetWithValue), <<>>, <<>>)

\* faulty variant: a form that is not touched is taken to need no reset
resetFormIfTouched(c, currentState) ==
  IF isTouched(currentState)
    THEN Done(resetFormLoop(c.initialState, forEach(c.initialState, <<>>),
                            c.resetWithValue), <<>>, <<>>)
    ELSE Done(currentState, <<>>, <<>>)

resetFormUpdater(c, currentState) ==
  Done(resetFormLoop(c.initialState, forEach(c.initialState, <<>>),
                     c.resetWithValue), <<>>, <<>>)

\* React calling a queued updater with the state the previous one returned
callUpdater(c, currentState) ==
  CASE c.op = "setValue" -> setValueUpdater(c, currentState)
    [] c.op = "reset" -> resetUpdater(c, currentState)
    [] c.op = "validate" -> validateUpdater(c, currentState)
    [] c.op = "validateAll" -> runValidationUpdater(c, currentState)
    [] c.op = "resetAll" -> resetFormUpdater(c, currentState)

\* the queue applied to s: for each updater called, the state it was called
\* with and what it yielded; an updater that throws ends the render
RECURSIVE processQueue(_, _)
processQueue(s, q) ==
  IF q = <<>> THEN <<>>
  ELSE LET r == callUpdater(Head(q), s)
           entry == [before |-> s, after |-> r.state, resolve |-> r.resolve,
                     handed |-> r.handed, threw |-> r.threw]
       IN IF r.threw THEN <<entry>>
          ELSE <<entry>> \o processQueue(r.state, Tail(q))

(***************************************************************************)
(* The forms the hook is used with: a schema, the seed objects it may be   *)
(* given, and the values a caller passes to the bindings of each leaf.     *)
(***************************************************************************)
\* the details branch of the test suite's Widget, with its cross-field rule
detailsForm ==
  [fieldDefs |->
     Obj(<<"details">>,
         [details |->
            Obj(<<"description", "picture">>,
                [description |-> field(NoProps),
                 picture |-> field([rules |-> <<"pictureRequiresDescription">>])])]),
   seeds |->
     {Undefined,
      Obj(<<"details">>,
          [details |-> Obj(<<"description", "picture">>,
                           [description |-> Null, picture |-> Str("bytes")])])},
   inputs |-> (<<"details", "description">> :> {Str(""), Str("description")})
              @@ (<<"details", "picture">> :> {Undefined, Str("bytes")}),
   resets |-> (<<"details", "description">> :> {Undefined})
              @@ (<<"details", "picture">> :> {Undefined}),
   overrides |->
     {Undefined,
      Obj(<<"details">>, [details |-> Obj(<<"picture">>, [picture |-> Str("bytes")])])}]

\* a list leaf that must not be empty, at the top level
widgetForm ==
  [fieldDefs |-> Obj(<<"components">>, [components |-> nonEmptyArrayField(NoProps)]),
   seeds |-> {Undefined, Obj(<<"components">>, [components |-> Arr(3)])},
   inputs |-> (<<"components">> :> {Undefined, Arr(0), Arr(3)}),
   resets |-> (<<"components">> :> {Undefined, Arr(3)}),
   overrides |-> {Undefined, Obj(<<"components">>, [components |-> Arr(3)])}]

\* one leaf with a default, seeded with falsy values, whose rule's message is ''
codeForm ==
  [fieldDefs |->
     Obj(<<"code">>,
         [code |-> field([default |-> Str("x"), rules |-> <<"emptyMessage">>])]),
   seeds |->
     {Undefined} \cup
     {Obj(<<"code">>, [code |-> v]) : v \in {Str(""), Num(0), False, Null}},
   inputs |-> (<<"code">> :> {Str(""), Str("y")}),
   resets |-> (<<"code">> :> {Undefined, Null, Str("y")}),
   overrides |-> {Undefined} \cup
                 {Obj(<<"code">>, [code |-> v]) : v \in {Str(""), Null}}]

Forms == {detailsForm, widgetForm, codeForm}

\* leaves of the library's constructors with built-in rules, whose bindings
\* are also handed undefined and null
itemsForm ==
  [fieldDefs |->
     Obj(<<"items", "count">>,
         [items |-> nonEmptyArrayField(NoProps),
          count |-> numberField([rules |-> <<"positiveNumber">>])]),
   seeds |-> {Undefined},
   inputs |-> (<<"items">> :> {Undefined, Null})
              @@ (<<"count">> :> {Null, Num(1)}),
   resets |-> (<<"items">> :> {Undefined}) @@ (<<"count">> :> {Undefined}),
   overrides |-> {Undefined}]

\* the form whose changes the caller observes through onStateChange
noteForm ==
  [fieldDefs |-> Obj(<<"note">>, [note |-> stringField(NoProps)]),
   seeds |-> {Undefined},
   inputs |-> (<<"note">> :> {Str("a"), Str("b")}),
   resets |-> (<<"note">> :> {Undefined}),
   overrides |-> {Undefined}]

\* an observed form constructed with or without a seed, reset with and
\* without values
memoForm ==
  [fieldDefs |-> Obj(<<"memo">>, [memo |-> stringField(NoProps)]),
   seeds |-> {Undefined, Obj(<<"memo">>, [memo |-> Str("s")])},
   inputs |-> (<<"memo">> :> {Str("a")}),
   resets |-> (<<"memo">> :> {Undefined, Str("r")}),
   overrides |-> {Undefined, Obj(<<"memo">>, [memo |-> Str("o")])}]

\* two schemas of one shape, with other defaults and rules, which the host
\* hands to useForm in turn, with or without a seed
draftForm ==
  [fieldDefs |-> Obj(<<"title">>, [title |-> field([default |-> Str("d1")])]),
   seeds |-> {Undefined, Obj(<<"title">>, [title |-> Str("s")])},
   inputs |-> (<<"title">> :> {Str(""), Str("a")}),
   resets |-> (<<"title">> :> {Undefined, Str("r")}),
   overrides |-> {Undefined, Obj(<<"title">>, [title |-> Str("o")])}]

revisedForm ==
  [fieldDefs |->
     Obj(<<"title">>, [title |-> field([default |-> Str("d2"), rules |-> <<>>])]),
   seeds |-> {Undefined, Obj(<<"title">>, [title |-> Str("s")])},
   inputs |-> (<<"title">> :> {Str(""), Str("a")}),
   resets |-> (<<"title">> :> {Undefined, Str("r")}),
   overrides |-> {Undefined, Obj(<<"title">>, [title |-> Str("o")])}]

Drafts == {draftForm, revisedForm}

\* a nested form whose bindings are handed objects, and whose reset is
\* handed objects of another shape than the schema's
shapeForm ==
  [fieldDefs |->
     Obj(<<"name", "details">>,
         [name |-> field(NoProps),
          details |-> Obj(<<"description">>, [description |-> field(NoProps)])]),
   seeds |-> {Undefined},
   inputs |-> (<<"name">> :> {Undefined, Obj(<<"first">>, [first |-> Str("x")])})
              @@ (<<"details", "description">> :> {Null, Str("x")}),
   resets |-> (<<"name">> :> {Undefined, Obj(<<"first">>, [first |-> Str("x")])})
              @@ (<<"details", "description">> :> {Undefined}),
   overrides |->
     {Undefined, Str("x"),
      Obj(<<"details", "extra">>, [details |-> Str("x"), extra |-> Str("x")]),
      Obj(<<"name">>, [name |-> Obj(<<"first">>, [first |-> Str("x")])])}]

\* a nested form seeded with objects of another shape than the schema's
seedForm ==
  [fieldDefs |->
     Obj(<<"name", "details">>,
         [name |-> stringField(NoProps),
          details |->
            Obj(<<"description">>, [description |-> field([default |-> Str("d")])])]),
   seeds |->
     {Null, Str("x"),
      Obj(<<"details">>, [details |-> Str("x")]),
      Obj(<<"name">>, [name |-> Str("n")]),
      Obj(<<"name", "details">>, [name |-> Str("n"), details |-> EmptyObject])},
   inputs |-> (<<"name">> :> {Str("m")})
              @@ (<<"details", "description">> :> {Str("")}),
   resets |-> (<<"name">> :> {Undefined})
              @@ (<<"details", "description">> :> {Undefined}),
   overrides |-> {Undefined}]

formOf(defs) ==
  CHOOSE f \in Forms \cup Drafts \cup {itemsForm, noteForm, memoForm, shapeForm, seedForm} : f.fieldDefs = defs

(***************************************************************************)
(* The bindings of the last render, and the closures their methods pass to *)
(* setState.                                                               *)
(***************************************************************************)
createFields(s, initial) ==
  LET leaves == forEach(s, <<>>)
  IN [i \in 1..Len(leaves) |->
        [path |-> leaves[i][1], value |-> leaves[i][2].value,
         error |-> prop(leaves[i][2], "error"),
         touched |-> prop(leaves[i][2], "touched"),
         rules |-> leaves[i][2].rules, initialState |-> initial]]

fields == createFields(state, initialState)

\* the tree createFields returns: produce(state, ..) with the binding object
\* written at every leaf path (its three methods are the actions below)
RECURSIVE bindInto(_, _)
bindInto(tree, leaves) ==
  IF leaves = <<>> THEN tree
  ELSE bindInto(set(tree, Head(leaves)[1],
                    [t |-> "Field", value |-> Head(leaves)[2].value,
                     error |-> prop(Head(leaves)[2], "error"),
                     touched |-> prop(Head(leaves)[2], "touched")]),
                Tail(leaves))

fieldsTree(s) == bindInto(s, forEach(s, <<>>))

bindings == {fields[i] : i \in 1..Len(fields)}

\* setState(updater) from an event handler; React ignores it once the
\* component is gone, and runs a pending effect before the next event
Enqueue(c) ==
  /\ lifecycle = "mounted"
  /\ ~triggerCallback
  /\ Len(queue) < MaxBatch
  /\ microtasks = <<>>
  /\ queue' = Append(queue, c)
  /\ IF queue = <<>>
       THEN prev' = state /\ flushed' = <<>> /\ applied' = <<>> /\ delivered' = <<>>
       ELSE UNCHANGED <<prev, flushed, applied, delivered>>
  /\ UNCHANGED <<fieldDefs, defaultValue, initialState, state, microtasks>>
  /\ UNCHANGED <<option, lifecycle, bridge, library>>

\* what the caller of setValue holds
Promise == [t |-> "promise"]

\* fields.<path>.setValue(updatedValue, options); returns records what the
\* call returned to its caller
setValue ==
  \E b \in bindings : \E updatedValue \in formOf(fieldDefs).inputs[b.path] :
    \E runValidation \in BOOLEAN :
      Enqueue([op |-> "setValue", path |-> b.path, rules |-> b.rules,
               error |-> b.error, updatedValue |-> updatedValue,
               runValidation |-> runValidation,
               returns |-> IF runValidation THEN Promise ELSE Undefined])

\* fields.<path>.reset(resetWithValue)
reset ==
  \E b \in bindings : \E resetWithValue \in formOf(fieldDefs).resets[b.path] :
    Enqueue([op |-> "reset", path |-> b.path, initialState |-> b.initialState,
             resetWithValue |-> resetWithValue])

\* fields.<path>.validate()
validate ==
  \E b \in bindings :
    Enqueue([op |-> "validate", path |-> b.path, value |-> b.value, rules |-> b.rules])

\* useForm's validate(): runValidation(setState)
runValidation == Enqueue([op |-> "validateAll"])

\* useForm's reset(value): resetForm(initialState, setState, value)
resetForm ==
  \E resetWithValue \in formOf(fieldDefs).overrides :
    Enqueue([op |-> "resetAll", initialState |-> initialState,
             resetWithValue |-> resetWithValue])

\* the resolve calls of a processed queue, each with the position of its updater
RECURSIVE resolved(_, _)
resolved(log, k) ==
  IF k > Len(log) THEN <<>>
  ELSE [i \in 1..Len(log[k].resolve) |-> [update |-> k, result |-> log[k].resolve[i]]]
       \o resolved(log, k + 1)

\* faulty variant: a pending timer is left to run (the call is dropped
\* instead of restarting the wait)
notifyWithoutRestart ==
  IF timer # Undefined THEN timer ELSE Num(option.delay)

\* the debounced function returned by useDebounce is called: lodash.debounce
\* starts its timer afresh
notifyValueChangeObserver == Num(option.delay)

\* faulty variant: a commit that leaves the form untouched cancels the
\* pending timer
RenderCancelsWhenUntouched ==
  /\ queue # <<>>
  /\ \E log \in {processQueue(state, queue)} :
       LET last == log[Len(log)]
           changed == \E k \in 1..Len(log) :
                        log[k].after # log[k].before \/ queue[k].op = "resetAll"
       IN /\ applied' = log
          /\ microtasks' = resolved(log, 1)
          /\ IF last.threw
               THEN /\ state' = state
                    /\ lifecycle' = "threw"
                    /\ UNCHANGED <<timer, sinceCall, superseded>>
               ELSE /\ state' = last.after
                    /\ UNCHANGED lifecycle
                    /\ IF changed /\ isTouched(last.after) /\ option.onStateChange
                         THEN /\ timer' = notifyValueChangeObserver
                              /\ sinceCall' = 0
                              /\ superseded' = timer
                         ELSE IF changed /\ option.onStateChange
                           THEN /\ timer' = Undefined
                                /\ UNCHANGED <<sinceCall, superseded>>
                         ELSE UNCHANGED <<timer, sinceCall, superseded>>
  /\ prev' = state
  /\ flushed' = queue
  /\ queue' = <<>>
  /\ delivered' = <<>>
  /\ UNCHANGED <<fieldDefs, defaultValue, initialState, option, triggerCallback,
                 notified>>
  /\ UNCHANGED library

\* faulty variant: the effect calls the debounced function whether or not
\* the form is touched
RenderArmsOnEveryCommit ==
  /\ queue # <<>>
  /\ \E log \in {processQueue(state, queue)} :
       LET last == log[Len(log)]
           changed == \E k \in 1..Len(log) :
                        log[k].after # log[k].before \/ queue[k].op = "resetAll"
       IN /\ applied' = log
          /\ microtasks' = resolved(log, 1)
          /\ IF last.threw
               THEN /\ state' = state
                    /\ lifecycle' = "threw"
                    /\ UNCHANGED <<timer, sinceCall, superseded>>
               ELSE /\ state' = last.after
                    /\ UNCHANGED lifecycle
                    /\ IF changed /\ option.onStateChange
                         THEN /\ timer' = notifyValueChangeObserver
                              /\ sinceCall' = 0
                              /\ superseded' = timer
                         ELSE UNCHANGED <<timer, sinceCall, superseded>>
  /\ prev' = state
  /\ flushed' = queue
  /\ queue' = <<>>
  /\ delivered' = <<>>
  /\ UNCHANGED <<fieldDefs, defaultValue, initialState, option, triggerCallback,
                 notified>>
  /\ UNCHANGED library

\* React applies the queued updaters, commits, re-invokes useForm and runs
\* its effect when it committed a new state object: produce returns the
\* object it was given when the recipe changed nothing, and resetForm always
\* builds a new one.  An updater that throws takes the component down.
\* (With no onStateChange the timer has no effect but to set and clear
\* triggerCallback, and the model leaves it idle.)
Render ==
  /\ queue # <<>>
  /\ \E log \in {processQueue(state, queue)} :
       LET last == log[Len(log)]
           changed == \E k \in 1..Len(log) :
                        log[k].after # log[k].before \/ queue[k].op = "resetAll"
       IN /\ applied' = log
          /\ microtasks' = resolved(log, 1)
          /\ IF last.threw
               THEN /\ state' = state
                    /\ lifecycle' = "threw"
                    /\ UNCHANGED <<timer, sinceCall, superseded>>
               ELSE /\ state' = last.after
                    /\ UNCHANGED lifecycle
                    /\ IF changed /\ isTouched(last.after) /\ option.onStateChange
                         THEN /\ timer' = notifyValueChangeObserver
                              /\ sinceCall' = 0
                              /\ superseded' = timer
                         ELSE UNCHANGED <<timer, sinceCall, superseded>>
  /\ prev' = state
  /\ flushed' = queue
  /\ queue' = <<>>
  /\ delivered' = <<>>
  /\ UNCHANGED <<fieldDefs, defaultValue, initialState, option, triggerCallback,
                 notified>>
  /\ UNCHANGED library

\* the continuations of the resolved promises run, before any later event
Deliver ==
  /\ microtasks # <<>>
  /\ delivered' = microtasks
  /\ microtasks' = <<>>
  /\ UNCHANGED <<fieldDefs, defaultValue, initialState, state, queue, prev, flushed,
                 applied>>
  /\ UNCHANGED <<option, lifecycle, bridge, library>>

\* the clock advances by one tick, between events, while the timer runs
Tick ==
  /\ Len(notified) < MaxNotified
  /\ queue = <<>> /\ microtasks = <<>> /\ ~triggerCallback
  /\ timer # Undefined /\ timer.n > 0
  /\ timer' = Num(timer.n - 1)
  /\ sinceCall' = sinceCall + 1
  /\ UNCHANGED <<form, option, lifecycle, triggerCallback, notified, superseded>>
  /\ UNCHANGED library

\* the timer expires and lodash.debounce calls the function useDebounce gave
\* it: setShouldTriggerCallback(true), which React ignores once the component
\* is gone
debounce ==
  /\ timer = Num(0)
  /\ queue = <<>> /\ microtasks = <<>>
  /\ timer' = Undefined
  /\ triggerCallback' = IF lifecycle = "mounted" THEN TRUE ELSE triggerCallback
  /\ UNCHANGED <<form, option, lifecycle, notified, sinceCall, superseded>>
  /\ UNCHANGED library

\* faulty variant: the callback of the first render is kept, a closure over
\* the initial state
callbackOfFirstRender ==
  IF option.onStateChange
    THEN Append(notified, extractValuesFromFieldsState(initialState))
    ELSE notified

\* the callback useForm passes to useDebounce, created by the latest render
callback ==
  IF option.onStateChange
    THEN Append(notified, extractValuesFromFieldsState(state))
    ELSE notified

\* faulty variant: the effect is run although the component is gone
effectAfterTeardown ==
  /\ triggerCallback
  /\ triggerCallback' = FALSE
  /\ notified' = callback
  /\ UNCHANGED <<form, option, lifecycle, timer, sinceCall, superseded>>
  /\ UNCHANGED library

\* faulty variant: the render that clears the flag runs useForm's effect
\* again, which calls the debounced function while the form is touched
useDebounceRearms ==
  /\ lifecycle = "mounted"
  /\ triggerCallback
  /\ triggerCallback' = FALSE
  /\ notified' = callback
  /\ timer' = IF isTouched(state) THEN notifyValueChangeObserver ELSE timer
  /\ UNCHANGED <<form, option, lifecycle, sinceCall, superseded>>
  /\ UNCHANGED library

\* the effect of useDebounce, after the render setShouldTriggerCallback(true)
\* caused
useDebounce ==
  /\ lifecycle = "mounted"
  /\ triggerCallback
  /\ triggerCallback' = FALSE
  /\ notified' = callback
  /\ UNCHANGED <<form, option, lifecycle, timer, sinceCall, superseded>>
  /\ UNCHANGED library

\* the host removes the form; no code of the hook cancels the timer
Unmount ==
  /\ lifecycle = "mounted"
  /\ queue = <<>> /\ microtasks = <<>>
  /\ lifecycle' = "unmounted"
  /\ UNCHANGED <<form, option, bridge>>
  /\ UNCHANGED library

\* useForm(fieldDefs, defaultValue) with no option
NoOption == [onStateChange |-> FALSE, delay |-> Delay, callOnChangeOnTeardown |-> FALSE]

\* an option object with onStateChange; callOnChangeOnTeardown is a key the
\* Option type does not declare and useForm does not read
Options ==
  [onStateChange : {TRUE}, delay : {Delay}, callOnChangeOnTeardown : BOOLEAN]

FirstRender(forms, options) ==
  /\ \E f \in forms : fieldDefs = f.fieldDefs /\ defaultValue \in f.seeds
  /\ initialState = getInitialState(fieldDefs, defaultValue)
  /\ state = initialState
  /\ queue = <<>>
  /\ microtasks = <<>>
  /\ delivered = <<>>
  /\ prev = state
  /\ flushed = <<>>
  /\ applied = <<>>
  /\ option \in options
  /\ lifecycle = "mounted"
  /\ timer = Undefined
  /\ triggerCallback = FALSE
  /\ notified = <<>>
  /\ sinceCall = 0
  /\ superseded = Undefined

\* no function of the library is called outside the hook
NoLibraryCall == called = NoCall /\ returned = Undefined

Init == FirstRender(Forms, {NoOption}) /\ NoLibraryCall

Next ==
  \/ setValue
  \/ reset
  \/ validate
  \/ runValidation
  \/ resetForm
  \/ Render
  \/ Deliver

Spec == Init /\ [][Next]_vars

\* the hook on leaves of the library's constructors, handed undefined and null
InitItems == FirstRender({itemsForm}, {NoOption}) /\ NoLibraryCall

SpecItems == InitItems /\ [][Next]_vars

\* the hook handed objects as values and as reset objects
InitShape == FirstRender({shapeForm}, {NoOption}) /\ NoLibraryCall

SpecShape == InitShape /\ [][Next]_vars

\* the hook constructed with seed objects of another shape than the schema's
InitSeed == FirstRender({seedForm}, {NoOption}) /\ NoLibraryCall

SpecSeed == InitSeed /\ [][Next]_vars

\* the hook with onStateChange, the clock and the host's teardown
InitBridge == FirstRender({noteForm}, Options) /\ NoLibraryCall

NextBridge ==
  \/ Next
  \/ Tick
  \/ debounce
  \/ useDebounce
  \/ Unmount

SpecBridge == InitBridge /\ [][NextBridge]_vars

\* the observed form with and without a seed
InitMemo ==
  /\ FirstRender({memoForm}, {[onStateChange |-> TRUE, delay |-> Delay,
                               callOnChangeOnTeardown |-> FALSE]})
  /\ NoLibraryCall

SpecMemo == InitMemo /\ [][NextBridge]_vars

\* faulty variant: the initial state is derived at the first render only
ResupplyKeepsInitialState ==
  /\ lifecycle = "mounted"
  /\ queue = <<>> /\ microtasks = <<>> /\ ~triggerCallback
  /\ \E f \in Drafts : \E seed \in f.seeds :
       /\ <<f.fieldDefs, seed>> # <<fieldDefs, defaultValue>>
       /\ fieldDefs' = f.fieldDefs
       /\ defaultValue' = seed
       /\ initialState' = initialState
  /\ UNCHANGED <<state, queue, microtasks, delivered, prev, flushed, applied>>
  /\ UNCHANGED <<option, lifecycle, bridge, library>>

\* the host renders again and hands useForm another schema or seed: useMemo
\* derives the initial state anew, useState keeps the state it has, and the
\* bindings and useForm's reset are made anew over the new initial state
Resupply ==
  /\ lifecycle = "mounted"
  /\ queue = <<>> /\ microtasks = <<>> /\ ~triggerCallback
  /\ \E f \in Drafts : \E seed \in f.seeds :
       /\ <<f.fieldDefs, seed>> # <<fieldDefs, defaultValue>>
       /\ fieldDefs' = f.fieldDefs
       /\ defaultValue' = seed
       /\ initialState' = getInitialState(f.fieldDefs, seed)
  /\ UNCHANGED <<state, queue, microtasks, delivered, prev, flushed, applied>>
  /\ UNCHANGED <<option, lifecycle, bridge, library>>

\* the hook under a host that hands it other schemas and seeds
InitDraft == FirstRender(Drafts, {NoOption}) /\ NoLibraryCall

NextDraft ==
  \/ Next
  \/ Resupply

SpecDraft == InitDraft /\ [][NextDraft]_vars

\* the host's event loop runs due timers, pending effects and microtasks
SpecBridgeFair ==
  /\ SpecBridge
  /\ WF_vars(Tick)
  /\ WF_vars(debounce)
  /\ WF_vars(useDebounce)
  /\ WF_vars(Deliver)

(***************************************************************************)
(* The functions of the library called outside the hook: the host picks    *)
(* the arguments, the call yields the result.                              *)
(***************************************************************************)
\* the schema of the test suite's Widget
widgetDefs ==
  Obj(<<"name", "components", "details">>,
      [name |-> field(NoProps),
       components |-> field(NoProps),
       details |->
         Obj(<<"description", "picture">>,
             [description |-> field(NoProps),
              picture |-> field([rules |-> <<"pictureRequiresDescription">>])])])

\* a leaf whose default passes its rule while undefined does not
titleDefs == Obj(<<"title">>, [title |-> field([default |-> Str("x")])])

Schemas == {widgetDefs, titleDefs, widgetForm.fieldDefs, codeForm.fieldDefs}

\* the values a data object holds at a leaf path
LeafValues == {Undefined, Null, Str(""), Str("x"), Arr(0)}

\* the data objects of a schema's shape, a branch or a leaf of which may be
\* missing (a missing property reads as undefined)
RECURSIVE DataOf(_)
DataOf(schema) ==
  IF schema.t = "Leaf" THEN LeafValues
  ELSE LET keys == DOMAIN schema.at
           entries == UNION {DataOf(schema.at[k]) : k \in keys}
       IN {Undefined} \cup
          {Obj(schema.keys, at) :
             at \in {g \in [keys -> entries] : \A k \in keys : g[k] \in DataOf(schema.at[k])}}

\* the call has not returned yet
Pending == [t |-> "pending"]

ValidateCalls ==
  UNION {{[f |-> "validate", data |-> data, fieldDefs |-> defs] : data \in DataOf(defs)}
         : defs \in Schemas}

\* validate(data, fieldDefs)
callValidate ==
  /\ called.f = "validate" /\ returned = Pending
  /\ returned' = validateData(called.data, called.fieldDefs)
  /\ UNCHANGED <<form, option, lifecycle, bridge, called>>

\* the rules the library exports
BuiltInRules == {"required", "nonEmpty", "positiveNumber", "nonNegativeNumber"}

\* the values a rule is called with
RuleInputs ==
  {Undefined, Null, Str(""), Str("x"), False, True, Num(0 - 1), Num(0), Num(1),
   Arr(0), Arr(3)}

RuleCalls ==
  {[f |-> "rule", rule |-> r, value |-> v, state |-> fv] :
     r \in BuiltInRules, v \in RuleInputs, fv \in {Undefined, EmptyObject}}

\* rule(value, state)
callRule ==
  /\ called.f = "rule" /\ returned = Pending
  /\ returned' = ApplyRule(called.rule, called.value, called.state)
  /\ UNCHANGED <<form, option, lifecycle, bridge, called>>

\* the leaf constructors the library exports
Constructors ==
  {"field", "stringField", "booleanField", "numberField", "arrayField",
   "nonEmptyArrayField"}

\* the props a constructor is called with: none, a default, a rule list, or both
PropsGiven ==
  LET defaults == {Null, Str("x"), True, Num(5), Arr(3)}
      ruleLists == {<<>>, <<"positiveNumber">>, <<"nonEmpty", "required">>}
  IN {NoProps} \cup {[default |-> d] : d \in defaults}
     \cup {[rules |-> r] : r \in ruleLists}
     \cup {[default |-> d, rules |-> r] : d \in defaults, r \in ruleLists}

FieldCalls ==
  {[f |-> "field", name |-> n, props |-> props] : n \in Constructors, props \in PropsGiven}

\* field(props), stringField(props), ...
callField ==
  /\ called.f = "field" /\ returned = Pending
  /\ returned' = construct(called.name, called.props)
  /\ UNCHANGED <<form, option, lifecycle, bridge, called>>

\* the leaves of the trees the walkers are called with: with and without a
\* value, touched and not
TreeLeaves ==
  {[LeafState(<<>>, v) EXCEPT !.touched = touched] :
     v \in {Undefined, Str("x")}, touched \in {Absent, Bool(TRUE)}}

\* the property names of a branch, in the order they were inserted
InnerKeys == {<<>>, <<"c">>, <<"c", "d">>}
OuterKeys == {<<>>, <<"a">>, <<"a", "b">>, <<"b", "1">>}

\* the objects with the given names whose entries are drawn from a set
ObjectsOf(keys, entries) ==
  {Obj(keys, at) : at \in [{keys[i] : i \in 1..Len(keys)} -> entries]}

\* the branches below the root: every entry a leaf or undefined
InnerBranches ==
  UNION {ObjectsOf(keys, {Undefined, LeafState(<<>>, Undefined), LeafState(<<>>, Str("x"))})
         : keys \in InnerKeys}

\* the trees: an entry is a leaf, a branch or undefined; and the objects that
\* are no trees, with an entry that is null or a string
Trees ==
  UNION {ObjectsOf(keys, TreeLeaves \cup InnerBranches \cup {Undefined, Null, Str("s")})
         : keys \in OuterKeys}

ForEachCalls == {[f |-> "forEach", object |-> object] : object \in Trees}

\* forEach(object, f): returns the calls of f, in order
callForEach ==
  /\ called.f = "forEach" /\ returned = Pending
  /\ returned' = IF raises(called.object) THEN Throw
                 ELSE [t |-> "calls", calls |-> forEach(called.object, <<>>)]
  /\ UNCHANGED <<form, option, lifecycle, bridge, called>>

ExistsCalls ==
  {[f |-> "exists", object |-> object, predicate |-> predicate] :
     object \in Trees, predicate \in {"hasValue", "touched", "never"}}

\* exists(object, predicate): returns the calls of predicate and the result
callExists ==
  /\ called.f = "exists" /\ returned = Pending
  /\ returned' = existsFrom(called.object, called.predicate, <<>>)
  /\ UNCHANGED <<form, option, lifecycle, bridge, called>>

InitLibrary ==
  /\ FirstRender({noteForm}, {NoOption})
  /\ called \in ValidateCalls \cup RuleCalls \cup FieldCalls \cup ForEachCalls
                \cup ExistsCalls
  /\ returned = Pending

NextLibrary ==
  \/ callValidate
  \/ callRule
  \/ callField
  \/ callForEach
  \/ callExists

SpecLibrary == InitLibrary /\ [][NextLibrary]_vars

\* what each updater of the last render was called with and yielded
Log == applied

(***************************************************************************)
(* Vocabulary of the properties.                                           *)
(***************************************************************************)
leafPaths(s) == {forEach(s, <<>>)[i][1] : i \in 1..Len(forEach(s, <<>>))}
valueAt(s, P) == get(s, P \o <<"value">>)
touchedAt(s, P) == get(s, P \o <<"touched">>)
errorAt(s, P) == get(s, P \o <<"error">>)
\* the rule list the schema declares for the leaf at P
rulesAt(P) == get(fieldDefs, P).rules

\* the message of the first rule of the list that fails on (v, fv), or Undefined
FirstFailure(rules, v, fv) ==
  LET failing == {i \in 1..Len(rules) : ApplyRule(rules[i], v, fv) # Undefined}
  IN IF failing = {} THEN Undefined
     ELSE ApplyRule(rules[CHOOSE i \in failing : \A j \in failing : i <= j], v, fv)

\* the last render applied a batch
Flushed == flushed # <<>>
Updates == 1..Len(flushed)
IsSetValue(k) == flushed[k].op = "setValue"
IsValidating(k) == IsSetValue(k) /\ flushed[k].runValidation
\* update j writes the value (and flags) of the leaf at P
WritesLeaf(j, P) ==
  \/ flushed[j].op = "resetAll"
  \/ flushed[j].op \in {"setValue", "reset"} /\ flushed[j].path = P
\* update j writes the error of the leaf at P
WritesError(j, P) ==
  \/ flushed[j].op \in {"resetAll", "validateAll"}
  \/ flushed[j].op \in {"reset", "validate"} /\ flushed[j].path = P
  \/ IsValidating(j) /\ flushed[j].path = P
\* update k is the last of the batch to write the leaf at P
LastWrite(k, P) == \A j \in Updates : j > k => ~WritesLeaf(j, P)

(***************************************************************************)
(* C1.  No lost updates within a batch: after a batch of calls made from   *)
(* the same bindings, every leaf targeted by a setValue that no later      *)
(* reset of the batch undid holds the last value set for it and is         *)
(* touched, and extractValue() returns all of those values together.       *)
(***************************************************************************)
C1_NoLostUpdates ==
  Flushed =>
    \A k \in Updates :
      (IsSetValue(k) /\ LastWrite(k, flushed[k].path)) =>
        /\ valueAt(state, flushed[k].path) = flushed[k].updatedValue
        /\ touchedAt(state, flushed[k].path) = True
        /\ get(extractValuesFromFieldsState(state), flushed[k].path)
             = flushed[k].updatedValue

\* two setValue calls on different leaves in one batch, both changing the value
C1_Witness ==
  /\ Len(flushed) = 2
  /\ IsSetValue(1) /\ IsSetValue(2)
  /\ flushed[1].path # flushed[2].path
  /\ \A k \in Updates : valueAt(prev, flushed[k].path) # flushed[k].updatedValue
  /\ \A k \in Updates : valueAt(state, flushed[k].path) = flushed[k].updatedValue

C3_SetValueWrites ==
  Flushed =>
    \A k \in Updates :
      IsSetValue(k) =>
        /\ valueAt(Log[k].after, flushed[k].path) = flushed[k].updatedValue
        /\ touchedAt(Log[k].after, flushed[k].path) = True

\* setValue with the value the leaf already holds, here undefined, on an
\* untouched leaf
C3_Witness ==
  /\ Flushed
  /\ \E k \in Updates :
       /\ IsSetValue(k)
       /\ flushed[k].updatedValue = Undefined
       /\ valueAt(Log[k].before, flushed[k].path) = Undefined
       /\ touchedAt(Log[k].before, flushed[k].path) # True
       /\ touchedAt(state, flushed[k].path) = True

(***************************************************************************)
(* C4.  setValue(v, {runValidation: true}) on leaf P writes as P's error   *)
(* the message of the first rule of P's rule list that fails on (v, the    *)
(* whole-object value), or undefined when none fails, and resolves its     *)
(* promise with true exactly when P has no error after the update.         *)
(***************************************************************************)
C4_SetValueValidates ==
  Flushed =>
    \A k \in Updates :
      IsValidating(k) =>
        LET P == flushed[k].path
        IN /\ errorAt(Log[k].after, P)
                = FirstFailure(rulesAt(P), flushed[k].updatedValue,
                               extractValuesFromFieldsState(Log[k].before))
           /\ Log[k].resolve = <<errorAt(Log[k].after, P) = Undefined>>

\* a value that fails two rules with different messages: the first is written
C4_Witness ==
  /\ Flushed
  /\ \E k \in Updates :
       /\ IsValidating(k)
       /\ Cardinality({i \in 1..Len(rulesAt(flushed[k].path)) :
             ApplyRule(rulesAt(flushed[k].path)[i], flushed[k].updatedValue,
                       extractValuesFromFieldsState(Log[k].before)) # Undefined}) = 2
       /\ k = Len(flushed)
       /\ errorAt(state, flushed[k].path) = requiredMessage
       /\ delivered = <<[update |-> k, result |-> FALSE]>>

(***************************************************************************)
(* C5.  The whole-object value handed to the rules by setValue(v,          *)
(* {runValidation: true}) on leaf P is extractValue of the state           *)
(* immediately before the update: it holds what earlier updates (of the    *)
(* same batch too) wrote to the sibling leaves, and at P the value P had   *)
(* before the update, while the rule's first argument is v.                *)
(***************************************************************************)
C5_RulesSeePrecedingState ==
  Flushed =>
    \A k \in Updates :
      IsValidating(k) =>
        LET P == flushed[k].path
            h == Log[k].handed
        IN /\ Len(h) = 1
           /\ h[1].value = flushed[k].updatedValue
           /\ h[1].formValue = extractValuesFromFieldsState(Log[k].before)
           /\ Log[k].before = IF k = 1 THEN prev ELSE Log[k - 1].after
           /\ get(h[1].formValue, P) = valueAt(Log[k].before, P)
           /\ \A j \in Updates :
                (/\ j < k /\ IsSetValue(j) /\ flushed[j].path # P
                 /\ \A i \in Updates : (j < i /\ i < k) => ~WritesLeaf(i, flushed[j].path))
                => get(h[1].formValue, flushed[j].path) = flushed[j].updatedValue

\* the picture rule passes because it sees the description set earlier in the
\* same batch, and sees at picture the value picture had before the update
C5_Witness ==
  /\ Len(flushed) = 2
  /\ IsSetValue(1) /\ flushed[1].path = <<"details", "description">>
  /\ flushed[1].updatedValue = Str("description")
  /\ ~truthy(valueAt(prev, <<"details", "description">>))
  /\ IsValidating(2) /\ flushed[2].path = <<"details", "picture">>
  /\ flushed[2].updatedValue = Str("bytes")
  /\ valueAt(prev, <<"details", "picture">>) = Undefined
  /\ errorAt(state, <<"details", "picture">>) = Undefined
  /\ delivered = <<[update |-> 2, result |-> TRUE]>>

(***************************************************************************)
(* C6.  A leaf binding's validate() recomputes the leaf's error from the   *)
(* value P holds in the state at the moment validate() takes effect        *)
(* (including a value written by a setValue on P earlier in the same       *)
(* batch) and the whole-object value of that same state.                   *)
(***************************************************************************)
C6_ValidateUsesCurrentValue ==
  Flushed =>
    \A k \in Updates :
      flushed[k].op = "validate" =>
        LET P == flushed[k].path
        IN errorAt(Log[k].after, P)
             = FirstFailure(rulesAt(P), valueAt(Log[k].before, P),
                            extractValuesFromFieldsState(Log[k].before))

(***************************************************************************)
(* C7.  validateAll() sets every leaf's error to the message of the first  *)
(* rule of its list that fails on (leaf value, whole-object value), or to  *)
(* undefined when none fails, and its result is true if and only if error  *)
(* is undefined at every leaf after the call.                              *)
(***************************************************************************)
C7_ValidateAllResult ==
  Flushed =>
    \A k \in Updates :
      flushed[k].op = "validateAll" =>
        /\ \A P \in leafPaths(fieldDefs) :
             errorAt(Log[k].after, P)
               = FirstFailure(rulesAt(P), valueAt(Log[k].before, P),
                              extractValuesFromFieldsState(Log[k].before))
        /\ Log[k].resolve
             = <<\A P \in leafPaths(fieldDefs) : errorAt(Log[k].after, P) = Undefined>>

(***************************************************************************)
(* C8.  validateAll() evaluates every leaf's rules against one and the     *)
(* same state snapshot: each leaf's value and the whole-object value       *)
(* passed to every rule come from the single state the update is applied   *)
(* to, and the error written at each leaf is the one computed from them.   *)
(***************************************************************************)
C8_OneSnapshot ==
  Flushed =>
    \A k \in Updates :
      flushed[k].op = "validateAll" =>
        LET h == Log[k].handed
            leaves == forEach(Log[k].before, <<>>)
        IN /\ Len(h) = Len(leaves)
           /\ \A i \in 1..Len(h) :
                /\ h[i].path = leaves[i][1]
                /\ h[i].value = valueAt(Log[k].before, h[i].path)
                /\ h[i].formValue = extractValuesFromFieldsState(Log[k].before)
                /\ errorAt(Log[k].after, h[i].path)
                     = FirstFailure(rulesAt(h[i].path), h[i].value, h[i].formValue)

\* validateAll after a setValue of the same batch, on a form whose picture
\* rule reads the sibling description: both errors come from the one snapshot
C8_Witness ==
  /\ Len(flushed) = 2
  /\ IsSetValue(1) /\ flushed[1].path = <<"details", "description">>
  /\ flushed[1].updatedValue = Str("")
  /\ truthy(valueAt(prev, <<"details", "description">>))
  /\ flushed[2].op = "validateAll"
  /\ errorAt(state, <<"details", "description">>) = requiredMessage
  /\ errorAt(state, <<"details", "picture">>) = pictureMessage

(***************************************************************************)
(* C9.  validateAll() issued after setValue calls of the same batch        *)
(* validates the values those calls wrote: setting a required leaf to ''   *)
(* and calling validateAll() resolves false, and validateAll() on leaves   *)
(* that all hold valid values resolves true.                               *)
(***************************************************************************)
C9_ValidateAllSeesBatch ==
  Flushed =>
    \A k \in Updates :
      flushed[k].op = "validateAll" =>
        LET fv == extractValuesFromFieldsState(Log[k].before)
        IN /\ \A j \in Updates :
                (/\ j < k /\ IsSetValue(j)
                 /\ \A i \in Updates : (j < i /\ i < k) => ~WritesLeaf(i, flushed[j].path))
                => LET P == flushed[j].path
                       v == flushed[j].updatedValue
                   IN /\ \E i \in 1..Len(Log[k].handed) :
                           Log[k].handed[i].path = P /\ Log[k].handed[i].value = v
                      /\ errorAt(Log[k].after, P) = FirstFailure(rulesAt(P), v, fv)
                      /\ (v = Str("") /\ \E i \in 1..Len(rulesAt(P)) :
                                            rulesAt(P)[i] = "required")
                         => Log[k].resolve = <<FALSE>>
           /\ (\A P \in leafPaths(fieldDefs) :
                 FirstFailure(rulesAt(P), valueAt(Log[k].before, P), fv) = Undefined)
              => Log[k].resolve = <<TRUE>>

\* a form whose leaves were valid and free of error, then a required leaf is
\* set to '' and validateAll() follows in the same batch: it resolves false
C9_Witness ==
  /\ Len(flushed) = 2
  /\ \A P \in leafPaths(fieldDefs) :
       /\ errorAt(prev, P) = Undefined
       /\ FirstFailure(rulesAt(P), valueAt(prev, P),
                       extractValuesFromFieldsState(prev)) = Undefined
  /\ IsSetValue(1) /\ flushed[1].updatedValue = Str("")
  /\ \E i \in 1..Len(rulesAt(flushed[1].path)) :
       rulesAt(flushed[1].path)[i] = "required"
  /\ flushed[2].op = "validateAll"
  /\ delivered = <<[update |-> 2, result |-> FALSE]>>
  /\ errorAt(state, flushed[1].path) = requiredMessage

(***************************************************************************)
(* C10.  The result of setValue(.., {runValidation: true}) and of          *)
(* validateAll() is delivered only once the state transition has been      *)
(* applied and committed: when a result is resolved no updater of its      *)
(* batch is pending, the committed state is the one the batch produced,    *)
(* and the error fields readable from the form are those the validation    *)
(* wrote (unless a later update of the same batch wrote them again).       *)
(***************************************************************************)
Resolving(k) == IsValidating(k) \/ flushed[k].op = "validateAll"
Results == microtasks \o delivered

C10_ResultAfterCommit ==
  /\ queue # <<>> => Results = <<>>
  /\ Flushed =>
       {Results[i].update : i \in 1..Len(Results)} = {k \in Updates : Resolving(k)}
  /\ \A n \in 1..Len(Results) :
       LET k == Results[n].update
       IN /\ state = Log[Len(flushed)].after
          /\ IsValidating(k) =>
               LET P == flushed[k].path
               IN /\ Results[n].result = (errorAt(Log[k].after, P) = Undefined)
                  /\ (\A j \in Updates : j > k => ~WritesError(j, P))
                     => errorAt(state, P) = errorAt(Log[k].after, P)
          /\ flushed[k].op = "validateAll" =>
               \A P \in leafPaths(fieldDefs) :
                 (\A j \in Updates : j > k => ~WritesError(j, P))
                 => errorAt(state, P)
                      = FirstFailure(rulesAt(P), valueAt(Log[k].before, P),
                                     extractValuesFromFieldsState(Log[k].before))

\* a delivered false whose error, absent before the batch, is readable
C10_Witness ==
  /\ Len(flushed) = 1 /\ IsValidating(1)
  /\ errorAt(prev, flushed[1].path) = Undefined
  /\ delivered = <<[update |-> 1, result |-> FALSE]>>
  /\ errorAt(state, flushed[1].path) # Undefined

(***************************************************************************)
(* C11.  On a schema built from the library's leaf constructors and        *)
(* built-in rules, validateAll() never throws, whatever values setValue    *)
(* has written into the leaves (undefined and null included): it completes *)
(* with one boolean result, which is false when any leaf fails.            *)
(***************************************************************************)
C11_ValidateAllCompletes ==
  Flushed =>
    \A k \in 1..Len(Log) :
      flushed[k].op = "validateAll" =>
        /\ ~Log[k].threw
        /\ Len(Log[k].resolve) = 1
        /\ (\E P \in leafPaths(fieldDefs) : errorAt(Log[k].after, P) # Undefined)
           => Log[k].resolve = <<FALSE>>

(***************************************************************************)
(* C12.  A leaf binding's reset(valueOverride?) sets the value at P to     *)
(* valueOverride if one is provided, otherwise to the value P held in the  *)
(* initial state, clears P's error to undefined and sets P's touched to    *)
(* false, after any sequence of earlier operations.                        *)
(***************************************************************************)
C12_ResetToOverride ==
  Flushed =>
    \A k \in Updates :
      flushed[k].op = "reset" =>
        LET P == flushed[k].path
            X == flushed[k].resetWithValue
        IN /\ valueAt(Log[k].after, P)
                = IF X # Undefined THEN X ELSE valueAt(initialState, P)
           /\ errorAt(Log[k].after, P) = Undefined
           /\ touchedAt(Log[k].after, P) = False

(***************************************************************************)
(* C12, amended.  reset(valueOverride?) sets the value at P to             *)
(* valueOverride if that is neither undefined nor null, otherwise to the   *)
(* value P held in the initial state (not the current value), clears P's   *)
(* error to undefined and sets P's touched to false.                       *)
(***************************************************************************)
C12_ResetToOverrideUnlessNull ==
  Flushed =>
    \A k \in Updates :
      flushed[k].op = "reset" =>
        LET P == flushed[k].path
            X == flushed[k].resetWithValue
        IN /\ valueAt(Log[k].after, P)
                = IF X \notin {Undefined, Null} THEN X ELSE valueAt(initialState, P)
           /\ errorAt(Log[k].after, P) = Undefined
           /\ touchedAt(Log[k].after, P) = False

\* reset(null) on a touched leaf that holds an error and a value other than
\* its initial one: the initial value comes back
C12_Witness ==
  /\ Len(flushed) = 1 /\ flushed[1].op = "reset"
  /\ flushed[1].resetWithValue = Null
  /\ touchedAt(prev, flushed[1].path) = True
  /\ errorAt(prev, flushed[1].path) \notin {Undefined, Null}
  /\ valueAt(prev, flushed[1].path) # valueAt(initialState, flushed[1].path)
  /\ valueAt(state, flushed[1].path) = valueAt(initialState, flushed[1].path)
  /\ touchedAt(state, flushed[1].path) = False

(***************************************************************************)
(* C13.  resetAll(X) sets every leaf P to the value at P within X if that  *)
(* value is defined, otherwise to the value P held in the initial state,   *)
(* so that extractValue() afterwards holds X's values; it clears every     *)
(* leaf's error to undefined and sets every leaf's touched to false.       *)
(***************************************************************************)
C13_ResetAllToOverride ==
  Flushed =>
    \A k \in Updates :
      flushed[k].op = "resetAll" =>
        LET X == flushed[k].resetWithValue
        IN \A P \in leafPaths(fieldDefs) :
             /\ valueAt(Log[k].after, P)
                  = IF get(X, P) # Undefined THEN get(X, P)
                    ELSE valueAt(initialState, P)
             /\ get(X, P) # Undefined
                => get(extractValuesFromFieldsState(Log[k].after), P) = get(X, P)
             /\ errorAt(Log[k].after, P) = Undefined
             /\ touchedAt(Log[k].after, P) = False

(***************************************************************************)
(* C13, amended.  resetAll(X) sets every leaf P to the value at P within X *)
(* if that value is neither undefined nor null, otherwise to the value P   *)
(* held in the initial state, so that extractValue() afterwards equals X   *)
(* at every leaf where X holds such a value; it clears every leaf's error  *)
(* to undefined and sets every leaf's touched to false.                    *)
(***************************************************************************)
C13_ResetAllToOverrideUnlessNull ==
  Flushed =>
    \A k \in Updates :
      flushed[k].op = "resetAll" =>
        LET X == flushed[k].resetWithValue
        IN \A P \in leafPaths(fieldDefs) :
             /\ valueAt(Log[k].after, P)
                  = IF get(X, P) \notin {Undefined, Null} THEN get(X, P)
                    ELSE valueAt(initialState, P)
             /\ get(X, P) \notin {Undefined, Null}
                => get(extractValuesFromFieldsState(Log[k].after), P) = get(X, P)
             /\ errorAt(Log[k].after, P) = Undefined
             /\ touchedAt(Log[k].after, P) = False

\* resetAll with an object that holds picture only, on a form whose
\* description was changed, touched and in error: picture takes the
\* object's value and description its initial one
C13_Witness ==
  /\ Len(flushed) = 1 /\ flushed[1].op = "resetAll"
  /\ get(flushed[1].resetWithValue, <<"details", "picture">>) = Str("bytes")
  /\ get(flushed[1].resetWithValue, <<"details", "description">>) = Undefined
  /\ touchedAt(prev, <<"details", "description">>) = True
  /\ errorAt(prev, <<"details", "description">>) = requiredMessage
  /\ valueAt(prev, <<"details", "description">>)
       # valueAt(initialState, <<"details", "description">>)
  /\ valueAt(prev, <<"details", "picture">>) # Str("bytes")
  /\ valueAt(state, <<"details", "picture">>) = Str("bytes")
  /\ valueAt(state, <<"details", "description">>)
       = valueAt(initialState, <<"details", "description">>)
  /\ \A P \in leafPaths(fieldDefs) :
       errorAt(state, P) = Undefined /\ touchedAt(state, P) = False

(***************************************************************************)
(* C14.  After any sequence of setValue, validate, validateAll and reset   *)
(* operations, resetAll() with no override followed by extractValue()      *)
(* yields exactly the object extractValue() returned immediately after     *)
(* construction, with every leaf's touched false and error undefined.      *)
(***************************************************************************)
C14_ResetAllRestores ==
  Flushed =>
    \A k \in Updates :
      (flushed[k].op = "resetAll" /\ flushed[k].resetWithValue = Undefined) =>
        /\ extractValuesFromFieldsState(Log[k].after)
             = extractValuesFromFieldsState(getInitialState(fieldDefs, defaultValue))
        /\ \A P \in leafPaths(fieldDefs) :
             /\ touchedAt(Log[k].after, P) = False
             /\ errorAt(Log[k].after, P) = Undefined

\* resetAll() on a form in which every leaf was changed and touched and one
\* holds an error
C14_Witness ==
  /\ Len(flushed) = 1 /\ flushed[1].op = "resetAll"
  /\ flushed[1].resetWithValue = Undefined
  /\ Cardinality(leafPaths(fieldDefs)) = 2
  /\ \A P \in leafPaths(fieldDefs) :
       /\ valueAt(prev, P) # valueAt(initialState, P)
       /\ touchedAt(prev, P) = True
  /\ \E P \in leafPaths(fieldDefs) : errorAt(prev, P) \notin {Undefined, Null}
  /\ extractValuesFromFieldsState(state) = extractValuesFromFieldsState(initialState)
  /\ extractValuesFromFieldsState(state) # extractValuesFromFieldsState(prev)

(***************************************************************************)
(* C15.  In every reachable state extractValue() returns a plain nested    *)
(* object whose shape equals the schema's shape and whose entry at every   *)
(* leaf path P is that leaf's current value (no touched, error or rules    *)
(* data); on the initial state it returns, for every P, get(O, P) if that  *)
(* is defined and non-null in the seed O, else the schema default.         *)
(***************************************************************************)
\* object has the branches of schema, with the same keys, and a value that
\* is not a tagged leaf wherever schema has a leaf
RECURSIVE ShapeMatches(_, _)
ShapeMatches(schema, object) ==
  IF schema.t = "Leaf" THEN object.t # "Leaf"
  ELSE /\ object.t = "object"
       /\ object.keys = schema.keys
       /\ \A i \in 1..Len(schema.keys) :
            ShapeMatches(schema.at[schema.keys[i]], object.at[schema.keys[i]])

EmptyValues == {Undefined, Null, Str(""), Arr(0)}

C16_IsEmpty ==
  /\ isEmpty(state) <=> \A P \in leafPaths(fieldDefs) : valueAt(state, P) \in EmptyValues
  /\ Flushed =>
       \A k \in Updates :
         (IsSetValue(k) /\ flushed[k].updatedValue \notin EmptyValues)
           => ~isEmpty(Log[k].after)

\* an empty form becomes non-empty by a setValue
C16_Witness ==
  /\ Len(flushed) = 1 /\ IsSetValue(1)
  /\ flushed[1].updatedValue \notin EmptyValues
  /\ isEmpty(prev)
  /\ ~isEmpty(state)

(***************************************************************************)
(* C17.  In every reachable state isTouched is true if and only if at      *)
(* least one leaf's touched flag is true; any leaf's setValue makes        *)
(* isTouched true, and reset on a leaf makes that leaf's touched false, so *)
(* that isTouched becomes false when no other leaf is touched.             *)
(***************************************************************************)
C17_IsTouched ==
  /\ isTouched(state) <=> \E P \in leafPaths(fieldDefs) : touchedAt(state, P) = True
  /\ Flushed =>
       \A k \in Updates :
         /\ IsSetValue(k) => isTouched(Log[k].after)
         /\ flushed[k].op = "reset" =>
              /\ touchedAt(Log[k].after, flushed[k].path) = False
              /\ isTouched(Log[k].after)
                   <=> \E Q \in leafPaths(fieldDefs) \ {flushed[k].path} :
                         touchedAt(Log[k].before, Q) = True

\* of two leaves only the first was touched; its reset makes the form
\* untouched again
C17_Witness ==
  /\ Len(flushed) = 1 /\ flushed[1].op = "reset"
  /\ flushed[1].path = <<"details", "description">>
  /\ touchedAt(prev, <<"details", "description">>) = True
  /\ touchedAt(prev, <<"details", "picture">>) # True
  /\ isTouched(prev)
  /\ ~isTouched(state)

(***************************************************************************)
(* Vocabulary of the change notification properties.                       *)
(***************************************************************************)
\* this step is a render that commits a new state object
Commits ==
  /\ queue # <<>> /\ queue' = <<>>
  /\ lifecycle' = "mounted"
  /\ \E k \in 1..Len(applied') :
       applied'[k].after # applied'[k].before \/ queue[k].op = "resetAll"

\* this step is a call of onStateChange
Notifies == notified' # notified

(***************************************************************************)
(* C18.  Debounce coalescing: with onStateChange and delay D, a state      *)
(* update that arrives while the notification of an earlier one is pending *)
(* (within D of it) resets the timer, so that updates each within D of the *)
(* previous one produce one trailing call of onStateChange, a full D after *)
(* the last of them, with the value extracted from the state after it.     *)
(***************************************************************************)
C18_EveryUpdateRestarts ==
  [][/\ (Commits /\ timer # Undefined)
        => (timer' = Num(option.delay) /\ ~Notifies)
     /\ Notifies
        => /\ sinceCall = option.delay
           /\ notified' = Append(notified, extractValuesFromFieldsState(state'))]_vars

(***************************************************************************)
(* C18, amended.  A state update after which the form is touched resets    *)
(* the timer (an update that leaves the form untouched, such as a reset of *)
(* the only touched leaf or resetAll, leaves a pending timer running), so  *)
(* that such updates each within D of the previous one produce one         *)
(* trailing call of onStateChange, a full D after the last of them, with   *)
(* the value extracted from the latest state.                              *)
(***************************************************************************)
C18_TouchedUpdateRestarts ==
  [][/\ (Commits /\ isTouched(state'))
        => (timer' = Num(option.delay) /\ ~Notifies)
     /\ (Commits /\ ~isTouched(state')) => (timer' = timer /\ ~Notifies)
     /\ Notifies
        => /\ sinceCall = option.delay
           /\ notified' = Append(notified, extractValuesFromFieldsState(state'))]_vars

\* a second setValue arrived one tick after the first, while its
\* notification was pending; onStateChange has been called once, with the
\* value the second one wrote
C18_Witness ==
  /\ Len(flushed) = 1 /\ IsSetValue(1)
  /\ flushed[1].updatedValue = Str("b")
  /\ valueAt(prev, <<"note">>) = Str("a")
  /\ touchedAt(prev, <<"note">>) = True
  /\ superseded = Num(1)
  /\ timer = Undefined
  /\ notified = <<Obj(<<"note">>, [note |-> Str("b")])>>

(***************************************************************************)
(* C19.  Every state update after which the form is touched schedules a    *)
(* delayed onStateChange(extractValue()) notification; if the form stays   *)
(* mounted and no further update arrives during the delay, onStateChange   *)
(* is eventually invoked with the value of the latest state.               *)
(***************************************************************************)
\* a notification is scheduled, the form is mounted and idle, and
\* onStateChange has been called n times
Scheduled(n) ==
  /\ lifecycle = "mounted"
  /\ timer # Undefined
  /\ queue = <<>>
  /\ Len(notified) = n

C19_NotificationArrives ==
  /\ [][(Commits /\ isTouched(state')) => timer' = Num(option.delay)]_vars
  /\ \A n \in 0..(MaxNotified - 1) :
       Scheduled(n) ~>
         \/ lifecycle # "mounted"
         \/ queue # <<>>
         \/ /\ Len(notified) = n + 1
            /\ notified[n + 1] = extractValuesFromFieldsState(state)

\* one update, then a quiet delay: onStateChange has been called with the
\* value of the state the update produced
C19_Witness ==
  /\ lifecycle = "mounted"
  /\ Len(flushed) = 1 /\ IsSetValue(1)
  /\ ~isTouched(prev) /\ isTouched(state)
  /\ superseded = Undefined
  /\ sinceCall = option.delay
  /\ timer = Undefined
  /\ ~triggerCallback
  /\ notified = <<extractValuesFromFieldsState(state)>>

(***************************************************************************)
(* C20.  On teardown with callOnChangeOnTeardown set to true, a pending    *)
(* coalesced notification is flushed immediately: onStateChange is invoked *)
(* once with the latest extracted value instead of being dropped.          *)
(***************************************************************************)
C20_TeardownFlushes ==
  [][(/\ lifecycle = "mounted" /\ lifecycle' = "unmounted"
      /\ option.callOnChangeOnTeardown
      /\ (timer # Undefined \/ triggerCallback))
     => notified' = Append(notified, extractValuesFromFieldsState(state))]_vars

(***************************************************************************)
(* C21.  On teardown with callOnChangeOnTeardown false or omitted, a       *)
(* notification that is pending and has not fired by teardown is           *)
(* discarded: onStateChange is not invoked at teardown, and never after    *)
(* the form instance has been torn down.                                   *)
(***************************************************************************)
C21_TeardownDiscards ==
  [][(~option.callOnChangeOnTeardown /\ lifecycle' = "unmounted")
     => notified' = notified]_vars

\* the form was torn down while the notification of a touched state was
\* pending; the timer has since expired and onStateChange was never called
C21_Witness ==
  /\ ~option.callOnChangeOnTeardown
  /\ lifecycle = "unmounted"
  /\ isTouched(state)
  /\ sinceCall = option.delay
  /\ timer = Undefined
  /\ ~triggerCallback
  /\ notified = <<>>

(***************************************************************************)
(* C22.  The standalone validate(data, schema) returns true if and only    *)
(* if, for every leaf path P of the schema, every rule of that leaf        *)
(* returns no error on (get(data, P), data): the data is used as given     *)
(* (a schema default is not substituted for a missing value) and the       *)
(* rules receive the whole data object.                                    *)
(***************************************************************************)
\* every rule of every leaf of defs returns undefined on data
AllRulesPass(data, defs) ==
  \A i \in 1..Len(forEach(defs, <<>>)) :
    LET P == forEach(defs, <<>>)[i][1]
        rules == forEach(defs, <<>>)[i][2].rules
    IN \A r \in 1..Len(rules) : ApplyRule(rules[r], get(data, P), data) = Undefined

C22_ValidateData ==
  (called.f = "validate" /\ returned # Pending) =>
    (returned = True <=> AllRulesPass(called.data, called.fieldDefs))

\* a leaf missing from the data fails its required rule although the schema
\* gives it a default that passes
C22_Witness ==
  /\ called.f = "validate"
  /\ called.fieldDefs = titleDefs
  /\ get(called.data, <<"title">>) = Undefined
  /\ returned = False

(***************************************************************************)
(* C23.  setValue without runValidation (false or omitted) runs no         *)
(* validation and produces no result: it returns undefined, so its caller  *)
(* has nothing to wait for, no rule is called, and the error at P is       *)
(* exactly what it was before the update (a previously recorded error      *)
(* stays even though the value changed).                                   *)
(***************************************************************************)
C23_SetValueFireAndForget ==
  /\ \A k \in 1..Len(queue) :
       (queue[k].op = "setValue" /\ ~queue[k].runValidation)
         => queue[k].returns = Undefined
  /\ Flushed =>
       \A k \in Updates :
         (IsSetValue(k) /\ ~flushed[k].runValidation) =>
           /\ flushed[k].returns = Undefined
           /\ Log[k].handed = <<>>
           /\ Log[k].resolve = <<>>
           /\ \A n \in 1..Len(Results) : Results[n].update # k
           /\ get(Log[k].after, flushed[k].path \o <<"error">>)
                = get(Log[k].before, flushed[k].path \o <<"error">>)

\* a leaf in error is given a value that would pass its rules: the error stays
C23_Witness ==
  /\ Len(flushed) = 1 /\ IsSetValue(1) /\ ~flushed[1].runValidation
  /\ errorAt(prev, flushed[1].path) = requiredMessage
  /\ valueAt(prev, flushed[1].path) # flushed[1].updatedValue
  /\ FirstFailure(rulesAt(flushed[1].path), flushed[1].updatedValue,
                  extractValuesFromFieldsState(prev)) = Undefined
  /\ valueAt(state, flushed[1].path) = flushed[1].updatedValue
  /\ errorAt(state, flushed[1].path) = requiredMessage

(***************************************************************************)
(* C24.  Shape invariant: in every state reachable through setValue,       *)
(* validate, reset, validateAll and resetAll (with any values and any      *)
(* override object), the state tree has exactly the schema's set of leaf   *)
(* paths and branches, and the bindings tree and the extractValue() result *)
(* have that same shape.                                                   *)
(***************************************************************************)
\* tree has the branches of schema, with the same keys in the same order,
\* and a value of one of the given kinds wherever schema has a leaf
RECURSIVE SameShape(_, _, _)
SameShape(schema, tree, kinds) ==
  IF schema.t = "Leaf" THEN tree.t \in kinds
  ELSE /\ tree.t = "object"
       /\ tree.keys = schema.keys
       /\ \A i \in 1..Len(schema.keys) :
            SameShape(schema.at[schema.keys[i]], tree.at[schema.keys[i]], kinds)

\* the kinds of value a leaf holds
ValueKinds == {"undefined", "null", "string", "boolean", "number", "array", "object"}

C24_ShapeInvariant ==
  /\ SameShape(fieldDefs, state, {"Leaf"})
  /\ leafPaths(state) = leafPaths(fieldDefs)
  /\ SameShape(fieldDefs, fieldsTree(state), {"Field"})
  /\ SameShape(fieldDefs, extractValuesFromFieldsState(state), ValueKinds)
  /\ Flushed => \A k \in Updates : SameShape(fieldDefs, Log[k].after, {"Leaf"})

\* a leaf was given an object, then the form was reset with an object that
\* holds a string where the schema has a branch, and a key the schema lacks
C24_Witness ==
  /\ Len(flushed) = 1 /\ flushed[1].op = "resetAll"
  /\ get(flushed[1].resetWithValue, <<"details">>) = Str("x")
  /\ get(flushed[1].resetWithValue, <<"extra">>) = Str("x")
  /\ valueAt(prev, <<"name">>).t = "object"
  /\ valueAt(prev, <<"details", "description">>) = Null
  /\ extractValuesFromFieldsState(state) = extractValuesFromFieldsState(initialState)

(***************************************************************************)
(* C25.  Immediately after construction every leaf state has touched equal *)
(* to false and error equal to undefined, and its rules are exactly the    *)
(* schema leaf's rule list; consequently isTouched is false at             *)
(* construction.                                                           *)
(***************************************************************************)
C25_InitialLeafState ==
  /\ \A P \in leafPaths(fieldDefs) :
       /\ touchedAt(initialState, P) = False
       /\ errorAt(initialState, P) = Undefined
       /\ get(initialState, P).rules = rulesAt(P)
  /\ ~isTouched(initialState)

(***************************************************************************)
(* C26.  A seed object whose shape disagrees with the schema (missing      *)
(* branches, missing leaves, or a scalar where the schema has a branch)    *)
(* never causes a failure at construction: the initial state is a state    *)
(* tree of the schema's shape, in which every leaf whose path cannot be    *)
(* resolved in the seed takes the schema default.                          *)
(***************************************************************************)
\* some step of P does not lead through an object that has the step's key
Unresolved(seed, P) ==
  \E n \in 0..(Len(P) - 1) :
    LET o == get(seed, SubSeq(P, 1, n))
    IN o.t # "object" \/ P[n + 1] \notin DOMAIN o.at

C26_MalformedSeed ==
  /\ SameShape(fieldDefs, initialState, {"Leaf"})
  /\ \A P \in leafPaths(fieldDefs) :
       Unresolved(defaultValue, P)
         => valueAt(initialState, P) = get(fieldDefs, P)["default"]

\* the seed holds a string where the schema has the details branch, and no
\* name: both leaves hold their defaults
C26_Witness ==
  /\ defaultValue = Obj(<<"details">>, [details |-> Str("x")])
  /\ state = initialState /\ flushed = <<>>
  /\ valueAt(state, <<"name">>) = Str("")
  /\ valueAt(state, <<"details", "description">>) = Str("d")

(***************************************************************************)
(* C27.  Built-in rules return an error exactly on these inputs and        *)
(* undefined on all others: required on undefined, null and '';            *)
(* non-empty-list on undefined and zero-length arrays; positive-number on  *)
(* undefined, null and numbers <= 0; non-negative-number on undefined,     *)
(* null and numbers < 0.  Stated for the inputs of each rule's declared    *)
(* type, undefined and null (any value for required).                      *)
(***************************************************************************)
\* the inputs the rule's type admits, with undefined and null
TypedInputs(r) ==
  {Undefined, Null} \cup
  CASE r = "required" -> RuleInputs
    [] r = "nonEmpty" -> {v \in RuleInputs : v.t = "array"}
    [] OTHER -> {v \in RuleInputs : v.t = "number"}

\* the inputs on which the rule is said to return its message
Rejected(r) ==
  CASE r = "required" -> {Undefined, Null, Str("")}
    [] r = "nonEmpty" -> {Undefined} \cup {v \in RuleInputs : v.t = "array" /\ v.length = 0}
    [] r = "positiveNumber" ->
         {Undefined, Null} \cup {v \in RuleInputs : v.t = "number" /\ v.n <= 0}
    [] r = "nonNegativeNumber" ->
         {Undefined, Null} \cup {v \in RuleInputs : v.t = "number" /\ v.n < 0}

MessageOf(r) ==
  CASE r = "required" -> requiredMessage
    [] r = "nonEmpty" -> nonEmptyMessage
    [] r = "positiveNumber" -> positiveNumberMessage
    [] r = "nonNegativeNumber" -> nonNegativeNumberMessage

C27_BuiltInRules ==
  (/\ called.f = "rule" /\ returned # Pending
   /\ called.value \in TypedInputs(called.rule))
  => returned = IF called.value \in Rejected(called.rule)
                  THEN MessageOf(called.rule) ELSE Undefined

(***************************************************************************)
(* C28.  Leaf constructors produce a leaf schema with these defaults:      *)
(* field -> undefined, stringField -> '', booleanField -> false,           *)
(* numberField -> 0, arrayField -> [], nonEmptyArrayField -> [] with the   *)
(* non-empty rule added to its rules; a caller-supplied default or rule    *)
(* list replaces the builder's, and when no rule list is supplied the rule *)
(* list is the single required rule (followed, for nonEmptyArrayField, by  *)
(* the non-empty rule).                                                    *)
(***************************************************************************)
DefaultOf(name) ==
  CASE name = "field" -> Undefined
    [] name = "stringField" -> Str("")
    [] name = "booleanField" -> False
    [] name = "numberField" -> Num(0)
    [] name \in {"arrayField", "nonEmptyArrayField"} -> Arr(0)

C28_LeafConstructors ==
  (called.f = "field" /\ returned # Pending) =>
    /\ returned.t = "Leaf"
    /\ DOMAIN returned = {"t", "default", "rules"}
    /\ returned["default"] = IF "default" \in DOMAIN called.props
                               THEN called.props["default"]
                               ELSE DefaultOf(called.name)
    /\ returned.rules = IF "rules" \in DOMAIN called.props THEN called.props.rules
                        ELSE IF called.name = "nonEmptyArrayField"
                          THEN <<"required", "nonEmpty">>
                        ELSE <<"required">>

\* nonEmptyArrayField given a rule list and no default
C28_Witness ==
  /\ called.f = "field" /\ called.name = "nonEmptyArrayField"
  /\ called.props = [rules |-> <<"positiveNumber">>]
  /\ returned = [t |-> "Leaf", default |-> Arr(0), rules |-> <<"positiveNumber">>]

(***************************************************************************)
(* C29.  For a leaf built with the non-empty-list builder: setting its     *)
(* value to [1,2,3], then to [], then calling validateAll() records the    *)
(* error "This field can't be empty." on that leaf and validateAll's       *)
(* result is false.                                                        *)
(***************************************************************************)
C29_EmptyListFails ==
  Flushed =>
    \A k \in Updates : \A P \in leafPaths(fieldDefs) :
      (/\ flushed[k].op = "validateAll"
       /\ get(fieldDefs, P) = nonEmptyArrayField(NoProps)
       /\ valueAt(Log[k].before, P) = Arr(0))
      => /\ errorAt(Log[k].after, P) = nonEmptyMessage
         /\ Log[k].resolve = <<FALSE>>
         /\ k = Len(flushed) =>
              /\ errorAt(state, P) = nonEmptyMessage
              /\ \E n \in 1..Len(Results) :
                   Results[n] = [update |-> k, result |-> FALSE]

\* the leaf, empty at construction, was set to a list of three, and is now
\* set to [] and validated
C29_Witness ==
  /\ defaultValue = Undefined
  /\ get(fieldDefs, <<"components">>) = nonEmptyArrayField(NoProps)
  /\ valueAt(prev, <<"components">>) = Arr(3)
  /\ touchedAt(prev, <<"components">>) = True
  /\ errorAt(prev, <<"components">>) = Undefined
  /\ Len(flushed) = 2
  /\ IsSetValue(1) /\ flushed[1].updatedValue = Arr(0) /\ ~flushed[1].runValidation
  /\ flushed[2].op = "validateAll"
  /\ errorAt(state, <<"components">>) = nonEmptyMessage
  /\ delivered = <<[update |-> 2, result |-> FALSE]>>

(***************************************************************************)
(* C30.  Validation operations never modify values or touched flags: a     *)
(* leaf binding's validate() changes nothing but the error at its own path *)
(* P, and validateAll() changes nothing but the error fields; every leaf's *)
(* value, touched flag and rules are the same before and after.            *)
(***************************************************************************)
\* the leaf state at Q with its error left out
ButError(s, Q) == [get(s, Q) EXCEPT !.error = Absent]

C30_ValidationFrame ==
  Flushed =>
    \A k \in Updates :
      flushed[k].op \in {"validate", "validateAll"} =>
        /\ leafPaths(Log[k].after) = leafPaths(Log[k].before)
        /\ \A Q \in leafPaths(fieldDefs) :
             /\ ButError(Log[k].after, Q) = ButError(Log[k].before, Q)
             /\ (flushed[k].op = "validate" /\ Q # flushed[k].path)
                => get(Log[k].after, Q) = get(Log[k].before, Q)

\* validate() on an untouched leaf gives it an error, next to a touched leaf
\* in error: but for that one error the state is what it was
C30_Witness ==
  /\ Len(flushed) = 1 /\ flushed[1].op = "validate"
  /\ errorAt(prev, flushed[1].path) = Undefined
  /\ errorAt(state, flushed[1].path) # Undefined
  /\ touchedAt(state, flushed[1].path) = Undefined
  /\ \E Q \in leafPaths(fieldDefs) \ {flushed[1].path} :
       /\ touchedAt(state, Q) = True
       /\ errorAt(state, Q) # Undefined
       /\ get(state, Q) = get(prev, Q)

(***************************************************************************)
(* C31.  Leaf operations are path-local: setValue, reset and validate      *)
(* invoked on the binding at path P leave the value, touched flag, error   *)
(* and rules of every leaf at a path other than P unchanged, in any state  *)
(* and regardless of whether P or any other leaf currently has an error    *)
(* (an error never blocks an update: the write at P takes place).          *)
(***************************************************************************)
C31_PathLocal ==
  Flushed =>
    \A k \in Updates :
      flushed[k].op \in {"setValue", "reset", "validate"} =>
        /\ \A Q \in leafPaths(fieldDefs) \ {flushed[k].path} :
             get(Log[k].after, Q) = get(Log[k].before, Q)
        /\ leafPaths(Log[k].after) = leafPaths(fieldDefs)
        /\ (IsSetValue(k) /\ \E Q \in leafPaths(fieldDefs) :
                                errorAt(Log[k].before, Q) # Undefined)
           => /\ valueAt(Log[k].after, flushed[k].path) = flushed[k].updatedValue
              /\ valueAt(Log[k].after, flushed[k].path)
                   = get(extractValuesFromFieldsState(Log[k].after), flushed[k].path)

\* both leaves are in error and touched; a setValue on one changes its value
\* and leaves the other leaf as it was
C31_Witness ==
  /\ Len(flushed) = 1 /\ IsSetValue(1)
  /\ Cardinality(leafPaths(fieldDefs)) = 2
  /\ \A Q \in leafPaths(fieldDefs) :
       errorAt(prev, Q) # Undefined /\ touchedAt(prev, Q) = True
  /\ valueAt(prev, flushed[1].path) # flushed[1].updatedValue
  /\ valueAt(state, flushed[1].path) = flushed[1].updatedValue
  /\ \A Q \in leafPaths(fieldDefs) \ {flushed[1].path} : get(state, Q) = get(prev, Q)

(***************************************************************************)
(* C32.  resetAll ignores the state it is applied to: when resetAll is     *)
(* issued in the same batch after setValue/validate calls, the effects of  *)
(* those earlier calls are all discarded and the resulting state is the    *)
(* initial state with the override applied; operations issued after        *)
(* resetAll in the same batch are applied on top of the reset state.       *)
(***************************************************************************)
\* the state resetAll(X) yields when applied to the initial state itself
ResetOfInitial(k) == callUpdater(flushed[k], initialState).state

C32_ResetAllIgnoresState ==
  Flushed =>
    \A k \in Updates :
      flushed[k].op = "resetAll" =>
        /\ Log[k].after = ResetOfInitial(k)
        /\ \A P \in leafPaths(fieldDefs) :
             /\ get(flushed[k].resetWithValue, P) \in {Undefined, Null}
                => valueAt(Log[k].after, P) = valueAt(initialState, P)
             /\ errorAt(Log[k].after, P) = Undefined
             /\ touchedAt(Log[k].after, P) = False
        /\ k < Len(flushed) =>
             /\ Log[k + 1].before = Log[k].after
             /\ IsSetValue(k + 1) =>
                  /\ valueAt(Log[k + 1].after, flushed[k + 1].path)
                       = flushed[k + 1].updatedValue
                  /\ \A Q \in leafPaths(fieldDefs) \ {flushed[k + 1].path} :
                       get(Log[k + 1].after, Q) = get(ResetOfInitial(k), Q)

\* a setValue that changed a value and recorded an error, then resetAll() in
\* the same batch: nothing of the setValue is left
C32_Witness ==
  /\ Len(flushed) = 2
  /\ IsValidating(1) /\ flushed[2].op = "resetAll"
  /\ flushed[2].resetWithValue = Undefined
  /\ valueAt(Log[1].after, flushed[1].path) # valueAt(initialState, flushed[1].path)
  /\ errorAt(Log[1].after, flushed[1].path) # Undefined
  /\ valueAt(state, flushed[1].path) = valueAt(initialState, flushed[1].path)
  /\ errorAt(state, flushed[1].path) = Undefined
  /\ touchedAt(state, flushed[1].path) = False

(***************************************************************************)
(* C33.  A resetAll (or leaf reset that leaves the form untouched) issued  *)
(* while a notification is pending neither cancels nor restarts the        *)
(* pending timer: the notification still fires at its original deadline    *)
(* and onStateChange receives the post-reset value, at a moment when       *)
(* isTouched is false.                                                     *)
(***************************************************************************)
C33_ResetKeepsTimer ==
  [][/\ (Commits /\ ~isTouched(state') /\ timer # Undefined)
        => /\ timer' = timer
           /\ sinceCall' = sinceCall
           /\ ~Notifies
     /\ (Notifies /\ ~isTouched(state))
        => /\ sinceCall = option.delay
           /\ notified' = Append(notified, extractValuesFromFieldsState(state))]_vars

\* resetAll() arrived one tick after a setValue, while its notification was
\* pending; the timer ran out a full delay after the setValue and
\* onStateChange was called once, with the value of the reset, untouched form
C33_Witness ==
  /\ Len(flushed) = 1 /\ flushed[1].op = "resetAll"
  /\ isTouched(prev) /\ ~isTouched(state)
  /\ valueAt(prev, <<"note">>) # valueAt(state, <<"note">>)
  /\ superseded = Undefined
  /\ sinceCall = option.delay
  /\ timer = Undefined
  /\ notified = <<extractValuesFromFieldsState(state)>>

(***************************************************************************)
(* C34.  Delivering a notification does not schedule another one: the      *)
(* renders caused by the trigger flag of useDebounce being set and cleared *)
(* do not re-arm the timer, so after one form-state update followed by     *)
(* quiet, onStateChange is invoked exactly once and never again until a    *)
(* further form-state update occurs.                                       *)
(***************************************************************************)
C34_DeliveryDoesNotRearm ==
  [][/\ (triggerCallback' /\ ~triggerCallback)
        => (timer = Num(0) /\ timer' = Undefined /\ ~Notifies)
     /\ Notifies
        => /\ triggerCallback /\ ~triggerCallback'
           /\ timer = Undefined /\ timer' = Undefined
           /\ Len(notified') = Len(notified) + 1
     /\ (timer = Undefined /\ timer' # Undefined)
        => (Commits /\ ~triggerCallback /\ ~Notifies)]_vars

\* one setValue on the form as constructed, then quiet: onStateChange was
\* called once, the flag is cleared and no timer runs, although the form is
\* touched
C34_Witness ==
  /\ prev = initialState
  /\ Len(flushed) = 1 /\ IsSetValue(1)
  /\ isTouched(state)
  /\ queue = <<>> /\ microtasks = <<>>
  /\ lifecycle = "mounted"
  /\ notified = <<extractValuesFromFieldsState(state)>>
  /\ ~triggerCallback
  /\ timer = Undefined

(***************************************************************************)
(* C35.  No notification is ever scheduled while the form is untouched:    *)
(* construction (with or without a seed), validateAll, leaf validate, leaf *)
(* reset and resetAll on a form on which no setValue has been called never *)
(* lead to a call of onStateChange.                                        *)
(***************************************************************************)
\* no leaf is touched, no setValue is waiting, no timer runs and onStateChange
\* has not been called
Pristine ==
  /\ ~isTouched(state)
  /\ \A k \in 1..Len(queue) : queue[k].op # "setValue"
  /\ timer = Undefined
  /\ ~triggerCallback
  /\ notified = <<>>

\* the form is pristine as constructed and every step other than a call of
\* setValue keeps it so; and a timer is only ever armed by a commit that
\* leaves the form touched
C35_UntouchedNeverNotifies ==
  /\ Pristine
  /\ [][/\ (Pristine /\ \A k \in 1..Len(queue') : queue'[k].op # "setValue") => Pristine'
        /\ (timer' # Undefined /\ (timer = Undefined \/ timer'.n > timer.n))
             => isTouched(state')]_vars

\* a seeded form on which validateAll and resetAll with values were rendered:
\* its state changed, no timer was armed and onStateChange was not called
C35_Witness ==
  /\ defaultValue # Undefined
  /\ prev = initialState
  /\ Len(flushed) = 2
  /\ flushed[1].op = "validateAll"
  /\ flushed[2].op = "resetAll" /\ flushed[2].resetWithValue # Undefined
  /\ valueAt(state, <<"memo">>) # valueAt(initialState, <<"memo">>)
  /\ Pristine
  /\ lifecycle = "mounted"

(***************************************************************************)
(* C36.  In every reachable state, the boolean delivered by validateAll()  *)
(* equals the boolean returned by the standalone                           *)
(* validate(extractValue(), schema) for the same schema, for every rule    *)
(* function (whatever string or undefined it returns).                     *)
(***************************************************************************)
\* what the update's promise delivered: the boolean it resolved with, or
\* Throw when the updater raised an exception
Delivers(k) ==
  IF Log[k].threw \/ Log[k].resolve = <<>> THEN Throw ELSE Bool(Log[k].resolve[1])

C36_SameAsStandalone ==
  Flushed =>
    \A k \in Updates :
      flushed[k].op = "validateAll" =>
        Delivers(k) = validateData(extractValuesFromFieldsState(Log[k].before), fieldDefs)

\* the same, on the states where no rule of the schema answers with the empty
\* string
C36_SameUnlessEmptyMessage ==
  Flushed =>
    \A k \in Updates :
      (/\ flushed[k].op = "validateAll"
       /\ \A P \in leafPaths(fieldDefs) : errorAt(Log[k].after, P) # Str(""))
      => Delivers(k) = validateData(extractValuesFromFieldsState(Log[k].before), fieldDefs)

(***************************************************************************)
(* C37.  When the host re-invokes the form with a different schema or seed *)
(* reference, the initial state is re-derived from the new inputs and      *)
(* becomes the baseline that later reset and resetAll calls restore, but   *)
(* the current state (values, touched flags, errors) is left unchanged by  *)
(* the re-supply itself.                                                   *)
(***************************************************************************)
\* this step hands useForm another schema or seed
Resupplies == fieldDefs' # fieldDefs \/ defaultValue' # defaultValue

C37_ResupplyMovesBaseline ==
  [][/\ Resupplies
        => /\ initialState' = getInitialState(fieldDefs', defaultValue')
           /\ state' = state
           /\ queue' = queue /\ microtasks' = microtasks
     /\ (queue # <<>> /\ queue' = <<>> /\ lifecycle' = "mounted")
        => \A k \in 1..Len(queue) :
             /\ queue[k].op = "reset"
                => /\ valueAt(applied'[k].after, queue[k].path)
                       = nullish(queue[k].resetWithValue,
                                 valueAt(initialState, queue[k].path))
                   /\ errorAt(applied'[k].after, queue[k].path) = Undefined
                   /\ touchedAt(applied'[k].after, queue[k].path) = False
             /\ queue[k].op = "resetAll"
                => \A P \in leafPaths(fieldDefs) :
                     /\ valueAt(applied'[k].after, P)
                         = nullish(get(queue[k].resetWithValue, P),
                                   valueAt(initialState, P))
                     /\ get(applied'[k].after, P).rules
                         = get(initialState, P).rules
                     /\ errorAt(applied'[k].after, P) = Undefined
                     /\ touchedAt(applied'[k].after, P) = False]_vars

\* the form was constructed on the first schema and edited; the host then
\* handed it the revised schema, and a leaf reset() with no value brought
\* back the revised schema's default, the leaf keeping the rules it had
C37_Witness ==
  /\ fieldDefs = revisedForm.fieldDefs /\ defaultValue = Undefined
  /\ Len(flushed) = 1 /\ flushed[1].op = "reset"
  /\ flushed[1].resetWithValue = Undefined
  /\ valueAt(prev, <<"title">>) = Str("a")
  /\ touchedAt(prev, <<"title">>) = True
  /\ get(state, <<"title">>).rules = get(draftForm.fieldDefs, <<"title">>).rules
  /\ get(state, <<"title">>).rules # get(initialState, <<"title">>).rules
  /\ valueAt(state, <<"title">>) = Str("d2")
  /\ touchedAt(state, <<"title">>) = False

(***************************************************************************)
(* Vocabulary of the tree walker properties.                               *)
(***************************************************************************)
\* a tree: a branch whose entries are leaves, trees or undefined
RECURSIVE IsTree(_)
IsTree(node) ==
  /\ node.t = "object"
  /\ \A key \in DOMAIN node.at :
       LET entry == node.at[key]
       IN entry = Undefined \/ entry.t = "Leaf" \/ IsTree(entry)

\* the node a path leads to through branches, Absent when it leads nowhere
RECURSIVE nodeAt(_, _)
nodeAt(node, P) ==
  IF P = <<>> THEN node
  ELSE IF node.t # "object" THEN Absent
  ELSE IF Head(P) \notin DOMAIN node.at THEN Absent
  ELSE nodeAt(node.at[Head(P)], Tail(P))

TreeNames == {"a", "b", "c", "d", "1"}
TreePaths == {<<n>> : n \in TreeNames} \cup {<<n, m>> : n, m \in TreeNames}

\* the paths of a tree's leaves
LeavesOf(tree) == {P \in TreePaths : nodeAt(tree, P).t = "Leaf"}

\* the place of a member in a sequence without repetitions
Pos(seq, x) == CHOOSE i \in 1..Len(seq) : seq[i] = x

\* the first place where two paths differ
Fork(P, Q) == CHOOSE d \in 1..Len(P) : d <= Len(Q) /\ P[d] # Q[d] /\ \A e \in 1..(d - 1) : P[e] = Q[e]

\* of two names of a branch, the first was inserted before the second
InsertedBefore(branch, n, m) == Pos(branch.keys, n) < Pos(branch.keys, m)

IsIndex(n) == \E i \in 1..Len(IndexKeys) : IndexKeys[i] = n

\* of two names of a branch, the first is enumerated before the second: an
\* integer-like name before every other name, two integer-like names by
\* their number, two other names by their insertion
EnumeratedBefore(branch, n, m) ==
  IF IsIndex(n) /\ IsIndex(m) THEN Pos(IndexKeys, n) < Pos(IndexKeys, m)
  ELSE IF IsIndex(n) \/ IsIndex(m) THEN IsIndex(n)
  ELSE InsertedBefore(branch, n, m)

\* forEach was called on a tree and has returned
Walked == called.f = "forEach" /\ returned # Pending /\ IsTree(called.object)

\* the walk ended without an exception, f was called once for each leaf of
\* the tree and for nothing else, with the leaf's path from the root
VisitsEveryLeafOnce ==
  /\ returned # Throw
  /\ LET tree == called.object
         calls == returned.calls
     IN /\ {calls[i][1] : i \in 1..Len(calls)} = LeavesOf(tree)
        /\ Len(calls) = Cardinality(LeavesOf(tree))
        /\ \A i, j \in 1..Len(calls) : i # j => calls[i][1] # calls[j][1]
        /\ \A i \in 1..Len(calls) :
             /\ calls[i][2] = nodeAt(tree, calls[i][1])
             /\ calls[i][2].t = "Leaf"

(***************************************************************************)
(* C38.  forEach visits every leaf of a tree exactly once, in depth-first  *)
(* insertion order, passing the leaf's full path from the root; distinct   *)
(* leaves receive distinct paths, branch nodes are never passed to the     *)
(* visitor, and the walk terminates on every finite tree.                  *)
(***************************************************************************)
C38_InsertionOrder ==
  Walked =>
    /\ VisitsEveryLeafOnce
    /\ LET tree == called.object
           calls == returned.calls
       IN \A i, j \in 1..Len(calls) :
            i < j =>
              LET P == calls[i][1]
                  Q == calls[j][1]
                  d == Fork(P, Q)
              IN InsertedBefore(nodeAt(tree, SubSeq(P, 1, d - 1)), P[d], Q[d])

\* as amended: the entries of a branch are visited in the order for...in
\* enumerates them, which is the order of insertion among names that are not
\* integer-like, and puts the integer-like names first, in ascending order
C38_EnumerationOrder ==
  Walked =>
    /\ VisitsEveryLeafOnce
    /\ LET tree == called.object
           calls == returned.calls
       IN \A i, j \in 1..Len(calls) :
            i < j =>
              LET P == calls[i][1]
                  Q == calls[j][1]
                  d == Fork(P, Q)
                  branch == nodeAt(tree, SubSeq(P, 1, d - 1))
              IN /\ EnumeratedBefore(branch, P[d], Q[d])
                 /\ (~IsIndex(P[d]) /\ ~IsIndex(Q[d]))
                    => InsertedBefore(branch, P[d], Q[d])

\* a tree { b: { c: undefined, d: leaf }, 1: leaf }: the leaf named 1 is
\* visited first although it was inserted last, then the leaf at b.d with its
\* path from the root; the undefined entry is passed over
C38_Witness ==
  /\ Walked
  /\ called.object.keys = <<"b", "1">>
  /\ nodeAt(called.object, <<"b">>).t = "object"
  /\ nodeAt(called.object, <<"b", "c">>) = Undefined
  /\ returned # Throw
  /\ Len(returned.calls) = 2
  /\ returned.calls[1][1] = <<"1">>
  /\ returned.calls[2][1] = <<"b", "d">>

(***************************************************************************)
(* C39.  exists returns true if and only if some leaf of the tree          *)
(* satisfies the predicate (false for the empty tree), stops evaluating    *)
(* the predicate after the first match, and both tree walkers treat an     *)
(* undefined branch entry as empty: it is not traversed and causes no      *)
(* error.                                                                  *)
(***************************************************************************)
\* the tree with an empty branch in the place of every undefined entry
RECURSIVE Emptied(_)
Emptied(node) ==
  IF node = Undefined THEN EmptyObject
  ELSE IF node.t # "object" THEN node
  ELSE [node EXCEPT !.at = [key \in DOMAIN node.at |-> Emptied(node.at[key])]]

\* exists was called on a tree and has returned
Searched == called.f = "exists" /\ returned # Pending /\ IsTree(called.object)

C39_ExistsShortCircuits ==
  /\ Searched =>
       LET tree == called.object
           calls == returned.calls
           Holds(leaf) == ApplyPredicate(called.predicate, leaf)
       IN /\ returned.returns # Throw
          /\ returned.returns = Bool(\E P \in LeavesOf(tree) : Holds(nodeAt(tree, P)))
          /\ LeavesOf(tree) = {} => (returned.returns = Bool(FALSE) /\ calls = <<>>)
          /\ \A i \in 1..Len(calls) :
               /\ \E P \in LeavesOf(tree) : calls[i] = nodeAt(tree, P)
               /\ Holds(calls[i]) => i = Len(calls)
          /\ returned = existsFrom(Emptied(tree), called.predicate, <<>>)
  /\ Walked =>
       /\ returned # Throw
       /\ returned.calls = forEach(Emptied(called.object), <<>>)

\* a tree { a: { c: undefined, d: leaf with a value }, b: leaf }: the walk
\* passed over the undefined entry, the predicate held at a.d and was not
\* called for b
C39_Witness ==
  /\ Searched
  /\ called.predicate = "hasValue"
  /\ called.object.keys = <<"a", "b">>
  /\ nodeAt(called.object, <<"a", "c">>) = Undefined
  /\ nodeAt(called.object, <<"a", "d">>).t = "Leaf"
  /\ nodeAt(called.object, <<"b">>).t = "Leaf"
  /\ returned.returns = Bool(TRUE)
  /\ returned.calls = <<nodeAt(called.object, <<"a", "d">>)>>

====
